---- MODULE Spec2Model ----
(***************************************************************************)
(* The upload pipeline of gitlab-workhorse: SaveFileFromReader (the tee),  *)
(* the multipart uploader, the single-PUT uploader and their cleanup       *)
(* goroutines, as one state machine.                                       *)
(* The native S3 uploader (S3Object) is a second state machine, S3Spec,    *)
(* over the same variables.                                                *)
(*                                                                         *)
(* The stream is counted in chunks: one chunk is one Write of the tee, and *)
(* the part size is a number of chunks.  io.Pipe is synchronous, so a      *)
(* round of io.Copy and the Read of the upload goroutine that takes its     *)
(* chunk from the pipe are one step.                                       *)
(***************************************************************************)
EXTENDS Integers, Sequences, FiniteSets, TLC

\* ---- bounds ----
MaxLen == 2
MaxParts == 2
MaxPartSize == 2

\* ---- values ----
Nil == "nil"
ErrNotEnoughParts == "ErrNotEnoughParts"
ErrEntityTooLarge == "ErrEntityTooLarge"
DeadlineExceeded == "DeadlineExceeded"
Canceled == "Canceled"
ErrClosedPipe == "ErrClosedPipe"

\* ---- ETags ----

\* An ETag string: the digest its hex digits spell, the number of its "-N"
\* suffix (0: no suffix), whether the hex digits are upper-case and whether
\* the string is wrapped in double quotes.
ETag(hex, parts, upper, quoted) ==
  [hex |-> hex, parts |-> parts, upper |-> upper, quoted |-> quoted]

\* the empty string
NoETag == ETag("", 0, FALSE, FALSE)

\* fh.hashes holds no "etag"
UnsetETag == ETag("unset", 0, FALSE, FALSE)

\* uploader.md5Sum(): lower-case hex of the MD5 of the bytes written
md5Sum == ETag("md5", 0, FALSE, FALSE)

\* uploader.extractETag(rawETag): the surrounding quotes are stripped
extractETag(raw) == [raw EXCEPT !.quoted = FALSE]

\* strings.EqualFold: equal but for the case of the letters
EqualFold(a, b) == a.hex = b.hex /\ a.parts = b.parts /\ a.quoted = b.quoted

\* an ETag that is the digest of something else
WrongETag == ETag("other", 0, FALSE, FALSE)

\* The ETags a server answers with where right is the ETag of the data it
\* was sent: right in quotes, right in upper-case, or another one.
ServerETags(right) ==
  {[right EXCEPT !.quoted = TRUE], [right EXCEPT !.upper = TRUE], WrongETag}

\* no answer with an ETag has arrived
NoAnswer == ETag("none", 0, FALSE, FALSE)

\* the ETags a server answers a part PUT with
PartETags == {[md5Sum EXCEPT !.quoted = TRUE], WrongETag}

\* a byte counter after one more chunk: exact up to cap, and beyond cap it
\* keeps the parity of the excess only (cap + 1, cap + 2, cap + 1, ...)
SatAt(n, cap) == IF n < cap + 2 THEN n + 1 ELSE cap + 1

\* the counters that are compared with the declared size
Sat(n) == SatAt(n, MaxLen)

VARIABLES
  partBuf,       \* temporary file of the part being read: stream positions of its bytes
  tempFiles,     \* number of part-buffer temporary files that exist
  partBodies,    \* body of the last PUT of each part
  partETags,     \* ETag of the answer to the PUT of each part
  call,          \* the last call of a side-effect-free function: name, arguments, result
  opts,          \* SaveFileOpts of the call
  size,          \* declared size, -1 when unknown
  ctxDone,       \* the context passed to SaveFileFromReader is done
  uploadCtxErr,  \* Err() of the uploader's ctx (uploadCtx)
  sfrPC,         \* position of SaveFileFromReader
  fhSize,        \* bytes written by io.Copy (fh.Size)
  hashed,        \* bytes read from the reader and written to the hash sink
  localBytes,    \* bytes written to the local temp file
  result,        \* what SaveFileFromReader returns
  fileClosed,    \* the descriptor of the local file was closed
  closeErr,      \* what remoteWriter.Close() returned
  fhETag,        \* fh.hashes["etag"]
  localFile,     \* the local temp file
  wclosed,       \* writer end of the remote pipe closed
  pipeErr,       \* "open", or the error the reader end was closed with
  upPC,          \* position of the upload goroutine
  partFill,      \* bytes in the part buffer
  cmu,           \* CompleteMultipartUpload.Part
  drained,       \* io.Copy(ioutil.Discard, pr) returned n > 0
  consumed,      \* bytes the upload goroutine read from the pipe
  uploadError,   \* uploader.uploadError
  etag,          \* uploader.etag
  clPC,          \* position of the cleanup goroutine
  partPuts,      \* requests received per part URL
  putSent,       \* requests received by the presigned PUT URL
  completeSent,  \* requests received by the completion URL
  abortSent,     \* requests received by the abort URL
  deleteSent,    \* requests received by the delete URL
  respStatus,    \* status of the response to the PUT or to the completion
  respBody,      \* what the body of the completion response decodes to
  respETag,      \* the ETag of that response, as the server sent it
  uploadsOpen,   \* gauge objectStorageUploadsOpen
  requestFailed, \* counter objectStorageUploadRequestsRequestFailed
  s3ObjectName,  \* S3Object: session and objectName are set
  s3Stored,      \* the bucket holds the object under the key
  s3DeleteSent   \* DeleteObject requests received by the bucket

vars == <<partBuf, tempFiles, partBodies, partETags, call, opts, size, ctxDone, uploadCtxErr, sfrPC, fhSize, hashed, localBytes,
          result, fileClosed, closeErr, localFile, wclosed, pipeErr, upPC, partFill, cmu,
          drained, consumed, uploadError, etag, clPC, partPuts, putSent,
          completeSent, abortSent, deleteSent, fhETag, respStatus,
          respBody, respETag, uploadsOpen, requestFailed,
          s3ObjectName, s3Stored, s3DeleteSent>>

sfrVars == <<sfrPC, fhSize, hashed, localBytes, result, fileClosed, closeErr, fhETag>>
upVars == <<upPC, partFill, cmu, drained, consumed, uploadError, etag>>
respVars == <<respStatus, respBody, respETag>>
reqVars == <<partPuts, putSent, completeSent, abortSent, deleteSent, respVars>>
metricVars == <<uploadsOpen, requestFailed>>
envVars == <<opts, size, ctxDone>>
s3Vars == <<s3ObjectName, s3Stored, s3DeleteSent>>
bodyVars == <<partBuf, tempFiles, partBodies, partETags>>

\* ---- SaveFileOpts ----
IsLocal == opts.LocalTempPath
\* an IsMultipart that gives way to the presigned PUT URL
IsMultipartUnlessPut == opts.PartSize > 0 /\ ~opts.PresignedPut

IsMultipart == opts.PartSize > 0
IsRemote == opts.PresignedPut \/ IsMultipart

\* partSize * len(partURLs): the bytes the part URLs can take
PartBudget == opts.PartSize * opts.NumParts

\* The options of a call.  NumParts is len(PresignedParts); the URL fields are
\* TRUE when the URL is not "".  A multipart configuration comes with the
\* presigned PUT URL as well and has a part URL; its cleanup URLs are both set
\* when it has two or more part URLs, and vary otherwise.
OptsSet ==
  { o \in [PartSize : 0..MaxPartSize, NumParts : 0..MaxParts,
           PresignedPut : BOOLEAN, PresignedDelete : BOOLEAN,
           PresignedAbortMultipart : BOOLEAN, LocalTempPath : BOOLEAN,
           SkipETagVerify : BOOLEAN] :
      /\ (o.PartSize = 0) => (o.NumParts = 0 /\ ~o.PresignedAbortMultipart)
      /\ (o.PartSize > 0) => (o.NumParts > 0 /\ o.PresignedPut)
      /\ (o.NumParts > 1) => (o.PresignedDelete /\ o.PresignedAbortMultipart) }

NoResult == [fh |-> FALSE, err |-> "unset"]
Failure(e) == [fh |-> FALSE, err |-> e]
Success == [fh |-> TRUE, err |-> Nil]

\* no side-effect-free function has been called
NoCall == [fn |-> "none", in |-> <<>>, out |-> <<>>]

Init ==
  /\ opts \in OptsSet
  /\ size \in -1..MaxLen
  /\ ctxDone = FALSE
  /\ uploadCtxErr = Nil
  /\ sfrPC = "start"
  /\ fhSize = 0
  /\ hashed = 0
  /\ localBytes = 0
  /\ result = NoResult
  /\ fileClosed = FALSE
  /\ closeErr = "unset"
  /\ localFile = "none"
  /\ wclosed = FALSE
  /\ pipeErr = "open"
  /\ upPC = "idle"
  /\ partFill = 0
  /\ cmu = <<>>
  /\ drained = FALSE
  /\ consumed = 0
  /\ uploadError = Nil
  /\ etag = NoETag
  /\ clPC = "idle"
  /\ partPuts = [i \in 1..MaxParts |-> 0]
  /\ putSent = 0
  /\ completeSent = 0
  /\ abortSent = 0
  /\ deleteSent = 0
  /\ fhETag = UnsetETag
  /\ respStatus = "none"
  /\ respBody = "none"
  /\ respETag = NoETag
  /\ uploadsOpen = 0
  /\ requestFailed = 0
  /\ s3ObjectName = FALSE
  /\ s3Stored = FALSE
  /\ s3DeleteSent = 0
  /\ call = NoCall
  /\ partBuf = <<>>
  /\ tempFiles = 0
  /\ partBodies = [i \in 1..MaxParts |-> <<>>]
  /\ partETags = [i \in 1..MaxParts |-> NoAnswer]

\* ---- contexts ----
UploadCtxDone == uploadCtxErr # Nil

\* context.WithDeadline(ctx, deadline) at the construction of an uploader: a
\* done parent gives a done child.  (A deadline already in the past is the
\* step DeadlineExpire taken right after the construction.)
WithDeadline == IF ctxDone THEN Canceled ELSE Nil

\* the caller (or the HTTP server) cancels the context of the request
CancelRequest ==
  /\ ~ctxDone
  /\ ctxDone' = TRUE
  /\ uploadCtxErr' = IF upPC # "idle" /\ uploadCtxErr = Nil THEN Canceled ELSE uploadCtxErr
  /\ UNCHANGED <<call, bodyVars, s3Vars, opts, size, sfrVars, localFile, wclosed, pipeErr,
                 upVars, clPC, reqVars, metricVars>>

\* the timer of context.WithDeadline fires on an upload context still active
DeadlineExpire ==
  /\ upPC # "idle"
  /\ uploadCtxErr = Nil
  /\ uploadCtxErr' = DeadlineExceeded
  /\ UNCHANGED <<call, bodyVars, s3Vars, envVars, sfrVars, localFile, wclosed, pipeErr,
                 upVars, clPC, reqVars, metricVars>>

\* ---- uploader (embedded in Multipart and Object) ----

\* uploader.Close after the pipe writer is closed and ctx is done: the
\* deadline error, else whatever uploadError holds at that moment
uploaderClose == IF uploadCtxErr = DeadlineExceeded THEN DeadlineExceeded ELSE uploadError

\* uploader.ETag after ctx is done: the etag field as it is at that moment
uploaderETag == etag

\* uploader.syncAndDelete(url): one DELETE request when the URL is set
syncAndDelete(urlSet, n) == IF urlSet THEN n + 1 ELSE n

\* uploader.Write hands the chunk to the pipe writer, which takes it while the
\* reader end is open
uploaderWrite == pipeErr = "open"

\* a reader end that is closed without the error of the upload
CloseWithoutError(e) == ErrClosedPipe

\* pr.CloseWithError(uploadError): what the next Write on the pipe returns
CloseWithError(e) == IF e = Nil THEN ErrClosedPipe ELSE e

\* ---- SaveFileFromReader ----

\* a writer was appended for the remote sink
RemoteCreated == upPC # "idle"

\* a return of SaveFileFromReader whose deferred function leaves the writer
\* end of the pipe open
ReturnWithoutClose(ret, remote) ==
  /\ result' = ret
  /\ wclosed' = wclosed
  /\ fileClosed' = (~remote /\ localFile # "none")
  /\ sfrPC' = IF remote THEN "defer_wait" ELSE "returned"

\* SaveFileFromReader returns ret: the deferred function of lines 109-115
\* closes every writer, and the Close of the remote writer closes the pipe
\* and waits for the upload context
Return(ret, remote) ==
  /\ result' = ret
  /\ wclosed' = (wclosed \/ remote)
  /\ fileClosed' = (~remote /\ localFile # "none")
  /\ sfrPC' = IF remote THEN "defer_wait" ELSE "returned"

\* the digest, under the algorithm alg, of the first n chunks of the stream
Digest(alg, n) == <<alg, n>>

\* multiHash.finish(): the hex digests of what was written to the hash sink
finish == [md5 |-> Digest("md5", hashed), sha256 |-> Digest("sha256", hashed)]

\* a round of io.Copy that counts the chunk although the local sink failed
CopyChunkIgnoresLocalError ==
  /\ sfrPC = "copy"
  /\ RemoteCreated => uploaderWrite
  /\ \E ok \in BOOLEAN :
       /\ (IsLocal \/ ok)
       /\ fhSize' = Sat(fhSize)
       /\ localBytes' = IF IsLocal /\ ok THEN Sat(localBytes) ELSE localBytes
       /\ UNCHANGED <<sfrPC, result, fileClosed, wclosed>>
  /\ hashed' = Sat(hashed)
  /\ UNCHANGED <<closeErr, fhETag>>

\* one round of io.Copy whose chunk the hash sink and the remote sink (if
\* any) took: the local sink (if any) is written last, then the chunk counts
CopyChunk ==
  /\ sfrPC = "copy"
  /\ RemoteCreated => uploaderWrite
  /\ \E ok \in BOOLEAN :
       /\ (IsLocal \/ ok)
       /\ IF ok THEN /\ fhSize' = Sat(fhSize)
                     /\ localBytes' = IF IsLocal THEN Sat(localBytes) ELSE localBytes
                     /\ UNCHANGED <<sfrPC, result, fileClosed, wclosed>>
                ELSE /\ Return(Failure("LocalWriteError"), RemoteCreated)
                     /\ UNCHANGED <<fhSize, localBytes>>
  /\ hashed' = Sat(hashed)
  /\ UNCHANGED <<closeErr, fhETag>>

\* a SaveFileFromReader that goes on to io.Copy with the hash sink alone
SaveFileFromReaderAnySinks ==
  /\ sfrPC = "start"
  /\ \E urlOK \in BOOLEAN, fileOK \in BOOLEAN :
       LET newErr == ~IsMultipart /\ IsRemote /\ ~urlOK
           remote == IsRemote /\ ~newErr
           localTried == IsLocal /\ ~newErr
           localErr == localTried /\ ~fileOK
           ret == IF newErr THEN Failure("NewRequestError")
                  ELSE IF localErr THEN Failure("LocalFileError")
                  ELSE NoResult
       IN /\ (IsRemote \/ urlOK)
          /\ (IsLocal \/ fileOK)
          /\ IF remote
               THEN /\ uploadCtxErr' = WithDeadline
                    /\ upPC' = IF ~IsMultipart THEN "do"
                               ELSE IF opts.NumParts = 0 THEN "drain" ELSE "tempfile"
                    /\ clPC' = "wait_upload"
                    /\ uploadsOpen' = uploadsOpen + 1
               ELSE UNCHANGED <<uploadCtxErr, upPC, clPC, uploadsOpen>>
          /\ localFile' = IF localTried /\ fileOK THEN "exists" ELSE localFile
          /\ requestFailed' = IF newErr THEN requestFailed + 1 ELSE requestFailed
          /\ IF ret = NoResult
               THEN /\ sfrPC' = "copy"
                    /\ UNCHANGED <<result, fileClosed, wclosed>>
               ELSE Return(ret, remote)
  /\ UNCHANGED <<call, bodyVars, s3Vars, envVars, fhSize, hashed, localBytes, closeErr, fhETag,
                 pipeErr, partFill, cmu,
                 drained, consumed, uploadError, etag, reqVars>>

\* lines 100-144: the sinks are created
SaveFileFromReader ==
  /\ sfrPC = "start"
  /\ \E urlOK \in BOOLEAN, fileOK \in BOOLEAN :
       LET newErr == ~IsMultipart /\ IsRemote /\ ~urlOK
           remote == IsRemote /\ ~newErr
           localTried == IsLocal /\ ~newErr
           localErr == localTried /\ ~fileOK
           ret == IF newErr THEN Failure("NewRequestError")
                  ELSE IF localErr THEN Failure("LocalFileError")
                  ELSE IF ~remote /\ ~localTried THEN Failure("MissingDestination")
                  ELSE NoResult
       IN /\ (IsRemote \/ urlOK)
          /\ (IsLocal \/ fileOK)
          /\ IF remote
               THEN /\ uploadCtxErr' = WithDeadline
                    /\ upPC' = IF ~IsMultipart THEN "do"
                               ELSE IF opts.NumParts = 0 THEN "drain" ELSE "tempfile"
                    /\ clPC' = "wait_upload"
                    /\ uploadsOpen' = uploadsOpen + 1
               ELSE UNCHANGED <<uploadCtxErr, upPC, clPC, uploadsOpen>>
          /\ localFile' = IF localTried /\ fileOK THEN "exists" ELSE localFile
          /\ requestFailed' = IF newErr THEN requestFailed + 1 ELSE requestFailed
          /\ IF ret = NoResult
               THEN /\ sfrPC' = "copy"
                    /\ UNCHANGED <<result, fileClosed, wclosed>>
               ELSE Return(ret, remote)
  /\ UNCHANGED <<call, bodyVars, s3Vars, envVars, fhSize, hashed, localBytes, closeErr, fhETag,
                 pipeErr, partFill, cmu,
                 drained, consumed, uploadError, etag, reqVars>>

\* a goroutine that removes the file without waiting for the context
RemoveLocalFileAtOnce ==
  /\ localFile = "exists"
  /\ localFile' = "removed"
  /\ UNCHANGED <<call, bodyVars, s3Vars, envVars, uploadCtxErr, sfrVars, wclosed, pipeErr, upVars, clPC, reqVars, metricVars>>

\* uploadLocalFile's goroutine: <-ctx.Done(); os.Remove
RemoveLocalFile ==
  /\ localFile = "exists"
  /\ ctxDone
  /\ localFile' = "removed"
  /\ UNCHANGED <<call, bodyVars, s3Vars, envVars, uploadCtxErr, sfrVars, wclosed, pipeErr, upVars, clPC, reqVars, metricVars>>

\* a round of io.Copy without a remote sink
CopyLocal ==
  /\ ~RemoteCreated
  /\ CopyChunk
  /\ UNCHANGED <<call, bodyVars, s3Vars, envVars, uploadCtxErr, localFile, pipeErr, upVars, clPC, reqVars, metricVars>>

\* the reader fails: io.Copy returns its error
CopyReadError ==
  /\ sfrPC = "copy"
  /\ Return(Failure("ReadError"), RemoteCreated)
  /\ UNCHANGED <<call, bodyVars, s3Vars, envVars, uploadCtxErr, fhSize, hashed, localBytes, closeErr,
                 fhETag, localFile,
                 pipeErr, upVars, clPC, reqVars, metricVars>>

\* a size check that takes the unknown size for a declared one
SizeCheckAppliesToUnknown == size # fhSize

\* the size check of lines 152-154
SizeCheckFails == size # -1 /\ size # fhSize

\* the reader is at EOF: io.Copy returns; the size check, hashes.finish and,
\* for a remote upload, the first half of remoteWriter.Close(): the pipe
\* writer is closed
CopyEOF ==
  /\ sfrPC = "copy"
  /\ IF SizeCheckFails
       THEN Return(Failure("SizeError"), RemoteCreated)
       ELSE IF IsRemote
         THEN /\ wclosed' = TRUE
              /\ sfrPC' = "close_wait"
              /\ UNCHANGED <<result, fileClosed>>
         ELSE Return(Success, RemoteCreated)
  /\ UNCHANGED <<call, bodyVars, s3Vars, envVars, uploadCtxErr, fhSize, hashed, localBytes, closeErr,
                 fhETag, localFile,
                 pipeErr, upVars, clPC, reqVars, metricVars>>

\* a fan-out that hands the chunk to the local sink although the remote sink
\* failed
CopyWriteErrorWritesLocal ==
  /\ sfrPC = "copy"
  /\ RemoteCreated
  /\ pipeErr # "open"
  /\ Return(Failure(pipeErr), RemoteCreated)
  /\ hashed' = Sat(hashed)
  /\ localBytes' = IF IsLocal THEN Sat(localBytes) ELSE localBytes
  /\ UNCHANGED <<call, bodyVars, s3Vars, envVars, uploadCtxErr, fhSize, closeErr,
                 fhETag, localFile, pipeErr, upVars, clPC, reqVars, metricVars>>

\* Write on the remote sink after the upload goroutine closed the reader end:
\* the hash sink, first of the writers, has taken the chunk
CopyWriteError ==
  /\ sfrPC = "copy"
  /\ RemoteCreated
  /\ pipeErr # "open"
  /\ Return(Failure(pipeErr), RemoteCreated)
  /\ hashed' = Sat(hashed)
  /\ UNCHANGED <<call, bodyVars, s3Vars, envVars, uploadCtxErr, fhSize, localBytes, closeErr, fhETag,
                 localFile, pipeErr, upVars, clPC, reqVars, metricVars>>

\* remoteWriter.Close(), second half: ctx is done; then lines 161-172
RemoteCloseReturns ==
  /\ sfrPC = "close_wait"
  /\ UploadCtxDone
  /\ closeErr' = uploaderClose
  /\ fhETag' = IF uploaderClose = Nil THEN uploaderETag ELSE fhETag
  /\ Return(IF uploaderClose = Nil THEN Success
            ELSE IF uploaderClose = ErrNotEnoughParts THEN Failure(ErrEntityTooLarge)
            ELSE Failure(uploaderClose), RemoteCreated)
  /\ UNCHANGED <<call, bodyVars, s3Vars, envVars, uploadCtxErr, fhSize, hashed, localBytes, localFile,
                 pipeErr, upVars, clPC, reqVars, metricVars>>

\* the deferred Close of the remote writer returns, and so does the call
DeferredCloseReturns ==
  /\ sfrPC = "defer_wait"
  /\ UploadCtxDone
  /\ sfrPC' = "returned"
  /\ fileClosed' = (localFile # "none")
  /\ UNCHANGED <<call, bodyVars, s3Vars, envVars, uploadCtxErr, fhSize, hashed, localBytes, result,
                 closeErr, fhETag, localFile,
                 wclosed, pipeErr, upVars, clPC, reqVars, metricVars>>

\* ---- the upload goroutine of NewMultipart ----

\* the goroutine returns with this error: the deferred functions are due
Exit(e) ==
  /\ uploadError' = e
  /\ upPC' = "exit_close"

\* a part loop that numbers the parts by the index of their URL, from 0
partNumberFromZero(i) == i

\* part loop: readAndUploadOnePart(partURL, putHeaders, src, i+1) for the
\* URL of index i, counted from 0
partNumber(i) == i + 1

\* a temporary file that keeps its content for the next part
KeepTempFile == partBuf

\* readAndUploadOnePart: the deferred os.Remove of the temporary file; the
\* next part gets a new, empty one from ioutil.TempFile
RemoveTempFile == <<>>

\* uploadPart: io.CopyN(part, body, size) after file.Seek(0, io.SeekStart),
\* the first size bytes of the temporary file
CopyN(file, n) == SubSeq(file, 1, n)

\* the part loop goes on after a part was appended to cmu: the next call of
\* readAndUploadOnePart, or the drain when the part URLs are used up
NextPart(parts) == IF Len(parts) = opts.NumParts THEN "drain" ELSE "tempfile"

\* a deferred os.Remove that leaves the temporary file where it is
osRemoveSkipped == tempFiles

\* readAndUploadOnePart: the deferred os.Remove(path) of the temporary file
osRemove == tempFiles - 1

\* readAndUploadOnePart: ioutil.TempFile("", "part-buffer"); without a file
\* the part fails before anything is read and nothing is deferred
createTempFile ==
  /\ upPC = "tempfile"
  /\ \E ok \in BOOLEAN :
       IF ok THEN /\ tempFiles' = tempFiles + 1
                  /\ upPC' = "buffer"
                  /\ UNCHANGED uploadError
             ELSE /\ Exit("PartError")
                  /\ UNCHANGED tempFiles
  /\ UNCHANGED <<call, partBuf, partBodies, partETags, s3Vars, envVars, uploadCtxErr, sfrVars,
                 localFile, wclosed, pipeErr, partFill, cmu, drained, consumed,
                 etag, clPC, reqVars, metricVars>>

\* readAndUploadOnePart, io.Copy(file, src): one chunk goes from the pipe to
\* the part buffer; the LimitReader ends the copy at partSize
readAndUploadOnePart ==
  /\ upPC = "buffer"
  /\ partFill' = partFill + 1
  /\ consumed' = SatAt(consumed, PartBudget)
  /\ upPC' = IF partFill + 1 = opts.PartSize THEN "put" ELSE "buffer"
  /\ partBuf' = Append(partBuf, consumed + 1)
  /\ CopyChunk
  /\ UNCHANGED <<call, tempFiles, partBodies, partETags, s3Vars, envVars, uploadCtxErr, localFile, pipeErr, cmu, drained,
                 uploadError, etag, clPC, reqVars, metricVars>>

\* a readAndUploadOnePart that uploads the part also when it read nothing
readAndUploadOnePartEOFUploadsEmpty ==
  /\ upPC = "buffer"
  /\ wclosed
  /\ upPC' = "put"
  /\ UNCHANGED <<call, bodyVars, s3Vars, envVars, uploadCtxErr, sfrVars, localFile,
                 wclosed, pipeErr, partFill, cmu, drained, consumed,
                 uploadError, etag, clPC, reqVars, metricVars>>

\* readAndUploadOnePart, io.Copy(file, src) at the end of the stream:
\* n == 0 is the end of the part loop
readAndUploadOnePartEOF ==
  /\ upPC = "buffer"
  /\ wclosed
  /\ upPC' = IF partFill = 0 THEN "drain" ELSE "put"
  /\ tempFiles' = IF partFill = 0 THEN osRemove ELSE tempFiles
  /\ UNCHANGED <<call, partBuf, partBodies, partETags, s3Vars, envVars, uploadCtxErr, sfrVars, localFile, wclosed, pipeErr,
                 partFill,
                 cmu, drained, consumed, uploadError, etag, clPC, reqVars, metricVars>>

\* readAndUploadOnePart: the part buffer cannot be written, or not rewound
readAndUploadOnePartDiskError ==
  /\ upPC = "buffer"
  /\ Exit("PartError")
  /\ partBuf' = RemoveTempFile
  /\ tempFiles' = osRemove
  /\ UNCHANGED <<call, partBodies, partETags, s3Vars, envVars, uploadCtxErr, sfrVars, localFile, wclosed, pipeErr,
                 partFill,
                 cmu, drained, consumed, etag, clPC, reqVars, metricVars>>

\* uploadPart: the PUT of the buffered part is sent, unless m.ctx is done
uploadPart ==
  /\ upPC = "put"
  /\ IF UploadCtxDone
       THEN /\ Exit("PartError")
            /\ partBuf' = RemoveTempFile
            /\ tempFiles' = osRemove
            /\ UNCHANGED <<partPuts, partBodies>>
       ELSE /\ partPuts' = [partPuts EXCEPT ![Len(cmu) + 1] = @ + 1]
            /\ partBodies' = [partBodies EXCEPT ![Len(cmu) + 1] =
                                CopyN(partBuf, partFill)]
            /\ upPC' = "put_wait"
            /\ UNCHANGED <<uploadError, partBuf, tempFiles>>
  /\ UNCHANGED <<call, partETags, s3Vars, envVars, uploadCtxErr, sfrVars, localFile, wclosed, pipeErr,
                 partFill,
                 cmu, drained, consumed, etag, clPC, putSent, completeSent,
                 abortSent, deleteSent, respVars, metricVars>>

\* a compareMD5 that compares the two strings byte by byte
compareMD5Exact(local, remote) == IF local = remote THEN Nil ELSE "ETagMismatch"

\* compareMD5(local, remote)
compareMD5(local, remote) == IF EqualFold(local, remote) THEN Nil ELSE "ETagMismatch"

\* the inner Object of a part: extractETag, and compareMD5 unless SkipETagVerify
PartETagRejected(raw) ==
  ~opts.SkipETagVerify /\ compareMD5(md5Sum, extractETag(raw)) # Nil

\* an uploadPart that sends the PUT of a part again when it failed
uploadPartRetries ==
  /\ upPC = "put_wait"
  /\ \E resp \in {"200", "status", "error"}, raw \in PartETags :
       /\ partETags' = IF resp = "200"
                         THEN [partETags EXCEPT ![Len(cmu) + 1] = extractETag(raw)]
                         ELSE partETags
       /\ IF resp \in {"status", "error"} \/ PartETagRejected(raw)
           THEN /\ upPC' = "put"
                /\ UNCHANGED <<cmu, partFill, uploadError, partBuf, tempFiles>>
           ELSE LET parts == Append(cmu, [PartNumber |-> partNumber(Len(cmu)),
                                          ETag |-> extractETag(raw)])
                IN /\ cmu' = parts
                   /\ partFill' = 0
                   /\ partBuf' = RemoveTempFile
                   /\ tempFiles' = osRemove
                   /\ upPC' = NextPart(parts)
                   /\ UNCHANGED uploadError
  /\ UNCHANGED <<call, partBodies, s3Vars, envVars, uploadCtxErr, sfrVars, localFile, wclosed, pipeErr,
                 drained, consumed, etag, clPC, reqVars, metricVars>>

\* uploadPart returns: the inner Object's Close and ETag.  "200" answers carry
\* an ETag; when m.ctx was cancelled through its parent, Close can return nil
\* before the PUT has ended, and the part counts with an empty ETag
uploadPartReturns ==
  /\ upPC = "put_wait"
  /\ \E resp \in {"200", "status", "error", "unfinished"}, raw \in PartETags :
       /\ (resp = "unfinished") => (uploadCtxErr = Canceled)
       /\ partETags' = IF resp = "200"
                         THEN [partETags EXCEPT ![Len(cmu) + 1] = extractETag(raw)]
                         ELSE partETags
       /\ IF resp \in {"status", "error"} \/ (resp = "200" /\ PartETagRejected(raw))
            THEN /\ Exit("PartError")
                 /\ UNCHANGED <<cmu, partFill>>
            ELSE LET tag == IF resp = "unfinished" THEN NoETag ELSE extractETag(raw)
                     parts == Append(cmu, [PartNumber |-> partNumber(Len(cmu)),
                                            ETag |-> tag])
                 IN /\ cmu' = parts
                    /\ partFill' = 0
                    /\ upPC' = NextPart(parts)
                    /\ UNCHANGED uploadError
  /\ partBuf' = RemoveTempFile
  /\ tempFiles' = osRemove
  /\ UNCHANGED <<call, partBodies, s3Vars, envVars, uploadCtxErr, sfrVars, localFile, wclosed, pipeErr,
                 drained, consumed, etag, clPC, reqVars, metricVars>>

\* io.Copy(ioutil.Discard, pr) takes a chunk after the part loop
drain ==
  /\ upPC = "drain"
  /\ drained' = TRUE
  /\ consumed' = SatAt(consumed, PartBudget)
  /\ CopyChunk
  /\ UNCHANGED <<call, bodyVars, s3Vars, envVars, uploadCtxErr, localFile, pipeErr, upPC, partFill, cmu,
                 uploadError, etag, clPC, reqVars, metricVars>>

\* a drain that does not look at the number of bytes it discarded
drainEOFIgnoresRemainder ==
  /\ upPC = "drain"
  /\ wclosed
  /\ upPC' = "complete"
  /\ UNCHANGED <<call, bodyVars, s3Vars, envVars, uploadCtxErr, sfrVars, localFile, wclosed, pipeErr,
                 partFill,
                 cmu, drained, consumed, uploadError, etag, clPC, reqVars, metricVars>>

\* a drain that returns before the writer end is closed
drainEOFBeforeClose ==
  /\ upPC = "drain"
  /\ IF drained THEN Exit(ErrNotEnoughParts)
                ELSE /\ upPC' = "complete"
                     /\ UNCHANGED uploadError
  /\ UNCHANGED <<call, bodyVars, s3Vars, envVars, uploadCtxErr, sfrVars, localFile, wclosed, pipeErr,
                 partFill,
                 cmu, drained, consumed, etag, clPC, reqVars, metricVars>>

\* io.Copy(ioutil.Discard, pr) returns at the end of the stream
drainEOF ==
  /\ upPC = "drain"
  /\ wclosed
  /\ IF drained THEN Exit(ErrNotEnoughParts)
                ELSE /\ upPC' = "complete"
                     /\ UNCHANGED uploadError
  /\ UNCHANGED <<call, bodyVars, s3Vars, envVars, uploadCtxErr, sfrVars, localFile, wclosed, pipeErr,
                 partFill,
                 cmu, drained, consumed, etag, clPC, reqVars, metricVars>>

\* complete: the CompleteMultipartUpload request is sent, unless m.ctx is done
complete ==
  /\ upPC = "complete"
  /\ IF UploadCtxDone
       THEN /\ Exit("CompleteError")
            /\ UNCHANGED completeSent
       ELSE /\ completeSent' = completeSent + 1
            /\ upPC' = "complete_wait"
            /\ UNCHANGED uploadError
  /\ UNCHANGED <<call, bodyVars, s3Vars, envVars, uploadCtxErr, sfrVars, localFile, wclosed, pipeErr,
                 partFill,
                 cmu, drained, consumed, etag, clPC, partPuts, putSent,
                 abortSent, deleteSent, respVars, metricVars>>

\* cmu.BuildMultipartUploadETag(): the hex MD5 of the concatenated MD5
\* digests that the part ETags spell, then "-" and the number of parts
BuildMultipartUploadETag(parts) ==
  ETag(IF \A i \in 1..Len(parts) : parts[i].ETag.hex = md5Sum.hex
         THEN "md5 of md5s" ELSE "md5 of others",
       Len(parts), FALSE, FALSE)

\* a verifyETag that compares whatever SkipETagVerify says
verifyETagAlways(parts, remote) ==
  compareMD5(BuildMultipartUploadETag(parts), remote)

\* verifyETag(cmu) against the extracted ETag of the completion
verifyETag(parts, remote) ==
  IF opts.SkipETagVerify THEN Nil
  ELSE compareMD5(BuildMultipartUploadETag(parts), remote)

\* a complete that looks at the status only: a 200 answer without a result
\* ends the upload without error
completeTrustsStatus ==
  /\ upPC = "complete_wait"
  /\ \E resp \in {"error", "status", "undecodable", "Error", "empty", "result"},
        raw \in ServerETags(BuildMultipartUploadETag(cmu)) :
       /\ respStatus' = IF resp = "error" THEN "none"
                        ELSE IF resp = "status" THEN "500" ELSE "200"
       /\ respBody' = IF resp \in {"error", "status"} THEN "none" ELSE resp
       /\ respETag' = IF resp = "result" THEN raw ELSE NoETag
       /\ etag' = IF resp = "result" THEN extractETag(raw) ELSE etag
       /\ Exit(IF resp = "result" THEN verifyETag(cmu, extractETag(raw))
               ELSE IF resp \in {"Error", "empty"} THEN Nil ELSE "CompleteError")
  /\ UNCHANGED <<call, bodyVars, s3Vars, envVars, uploadCtxErr, sfrVars, localFile, wclosed, pipeErr,
                 partFill,
                 cmu, drained, consumed, clPC, partPuts, putSent, completeSent,
                 abortSent, deleteSent, metricVars>>

\* complete, from the response on: status, decoding, extractETag, verifyETag
completeReturns ==
  /\ upPC = "complete_wait"
  /\ \E resp \in {"error", "status", "undecodable", "Error", "empty", "result"},
        raw \in ServerETags(BuildMultipartUploadETag(cmu)) :
       /\ respStatus' = IF resp = "error" THEN "none"
                        ELSE IF resp = "status" THEN "500" ELSE "200"
       /\ respBody' = IF resp \in {"error", "status"} THEN "none" ELSE resp
       /\ respETag' = IF resp = "result" THEN raw ELSE NoETag
       /\ IF resp = "result"
            THEN /\ etag' = extractETag(raw)
                 /\ Exit(verifyETag(cmu, extractETag(raw)))
            ELSE /\ Exit("CompleteError")
                 /\ UNCHANGED etag
  /\ UNCHANGED <<call, bodyVars, s3Vars, envVars, uploadCtxErr, sfrVars, localFile, wclosed, pipeErr,
                 partFill,
                 cmu, drained, consumed, clPC, partPuts, putSent, completeSent,
                 abortSent, deleteSent, metricVars>>

\* ---- the deferred functions of the upload goroutines ----

\* pr.CloseWithError(uploadError)
deferCloseWithError ==
  /\ upPC = "exit_close"
  /\ pipeErr' = CloseWithError(uploadError)
  /\ upPC' = "exit_cancel"
  /\ UNCHANGED <<call, bodyVars, s3Vars, envVars, uploadCtxErr, sfrVars, localFile, wclosed,
                 partFill, cmu,
                 drained, consumed, uploadError, etag, clPC, reqVars, metricVars>>

\* an upload goroutine that cancels its context and leaves the gauge alone
deferCancelFnWithoutDec ==
  /\ upPC = "exit_cancel"
  /\ uploadCtxErr' = IF uploadCtxErr = Nil THEN Canceled ELSE uploadCtxErr
  /\ upPC' = "done"
  /\ UNCHANGED <<call, bodyVars, s3Vars, envVars, sfrVars, localFile, wclosed, pipeErr, partFill, cmu,
                 drained, consumed, uploadError, etag, clPC, reqVars, metricVars>>

\* objectStorageUploadsOpen.Dec() and cancelFn()
deferCancelFn ==
  /\ upPC = "exit_cancel"
  /\ uploadsOpen' = uploadsOpen - 1
  /\ uploadCtxErr' = IF uploadCtxErr = Nil THEN Canceled ELSE uploadCtxErr
  /\ upPC' = "done"
  /\ UNCHANGED <<call, bodyVars, s3Vars, envVars, sfrVars, localFile, wclosed, pipeErr, partFill, cmu,
                 drained, consumed, uploadError, etag, clPC, reqVars, requestFailed>>

\* ---- Multipart.cleanup ----

\* a cleanup that goes on to the delete after the abort
cleanupAbortThenDelete ==
  /\ IsMultipart
  /\ clPC = "wait_upload"
  /\ UploadCtxDone
  /\ IF uploadError # Nil
       THEN /\ requestFailed' = requestFailed + 1
            /\ abortSent' = syncAndDelete(opts.PresignedAbortMultipart, abortSent)
       ELSE UNCHANGED <<requestFailed, abortSent>>
  /\ clPC' = "wait_ctx"
  /\ UNCHANGED <<call, bodyVars, s3Vars, envVars, uploadCtxErr, sfrVars, localFile, wclosed, pipeErr,
                 upVars,
                 partPuts, putSent, completeSent, deleteSent, respVars, uploadsOpen>>

\* <-m.ctx.Done(), the test of uploadError and, on an error, abort
cleanup ==
  /\ IsMultipart
  /\ clPC = "wait_upload"
  /\ UploadCtxDone
  /\ IF uploadError # Nil
       THEN /\ requestFailed' = requestFailed + 1
            /\ abortSent' = syncAndDelete(opts.PresignedAbortMultipart, abortSent)
            /\ clPC' = "done"
       ELSE /\ clPC' = "wait_ctx"
            /\ UNCHANGED <<requestFailed, abortSent>>
  /\ UNCHANGED <<call, bodyVars, s3Vars, envVars, uploadCtxErr, sfrVars, localFile, wclosed, pipeErr,
                 upVars,
                 partPuts, putSent, completeSent, deleteSent, respVars, uploadsOpen>>

\* a delete that does not wait for the context of the request
cleanupDeleteAtOnce ==
  /\ IsMultipart
  /\ clPC = "wait_ctx"
  /\ deleteSent' = syncAndDelete(opts.PresignedDelete, deleteSent)
  /\ clPC' = "done"
  /\ UNCHANGED <<call, bodyVars, s3Vars, envVars, uploadCtxErr, sfrVars, localFile, wclosed, pipeErr,
                 upVars,
                 partPuts, putSent, completeSent, abortSent, respVars, metricVars>>

\* <-ctx.Done() and m.delete()
cleanupDelete ==
  /\ IsMultipart
  /\ clPC = "wait_ctx"
  /\ ctxDone
  /\ deleteSent' = syncAndDelete(opts.PresignedDelete, deleteSent)
  /\ clPC' = "done"
  /\ UNCHANGED <<call, bodyVars, s3Vars, envVars, uploadCtxErr, sfrVars, localFile, wclosed, pipeErr,
                 upVars,
                 partPuts, putSent, completeSent, abortSent, respVars, metricVars>>

\* ---- the upload goroutine of newObject (the presigned PUT) ----

\* the request declares a length: net/http takes ContentLength 0 with a body
\* as unknown
KnownLength == size > 0

\* httpClient.Do(req): the PUT is sent, unless o.ctx is done
newObject ==
  /\ upPC = "do"
  /\ IF UploadCtxDone
       THEN /\ requestFailed' = requestFailed + 1
            /\ Exit("PutRequestError")
            /\ UNCHANGED putSent
       ELSE /\ putSent' = putSent + 1
            /\ upPC' = "streaming"
            /\ UNCHANGED <<uploadError, requestFailed>>
  /\ UNCHANGED <<call, bodyVars, s3Vars, envVars, uploadCtxErr, sfrVars, localFile, wclosed, pipeErr,
                 partFill,
                 cmu, drained, consumed, etag, clPC, partPuts, completeSent,
                 abortSent, deleteSent, respVars, uploadsOpen>>

\* the transport reads a chunk of the request body from the pipe
newObjectBody ==
  /\ upPC = "streaming"
  /\ consumed' = Sat(consumed)
  /\ CopyChunk
  /\ UNCHANGED <<call, bodyVars, s3Vars, envVars, uploadCtxErr, localFile, pipeErr, upPC, partFill, cmu,
                 drained, uploadError, etag, clPC, reqVars, metricVars>>

\* the request body ends: a declared length that the body does not have
\* fails the request
newObjectBodyEOF ==
  /\ upPC = "streaming"
  /\ wclosed
  /\ IF KnownLength /\ consumed # size
       THEN /\ requestFailed' = requestFailed + 1
            /\ Exit("PutRequestError")
       ELSE /\ upPC' = "await"
            /\ UNCHANGED <<uploadError, requestFailed>>
  /\ UNCHANGED <<call, bodyVars, s3Vars, envVars, uploadCtxErr, sfrVars, localFile, wclosed, pipeErr,
                 partFill,
                 cmu, drained, consumed, etag, clPC, reqVars, uploadsOpen>>

\* a status of the 2xx class, the one the server answers with once it has
\* the body
Success2xx(status) == status \in {"200", "204"}

\* resp.StatusCode != http.StatusOK
StatusOK(status) == status = "200"

\* a newObject that takes the ETag of a 200 answer without comparing it
newObjectTrustsETag ==
  /\ upPC \in {"streaming", "await"}
  /\ \E resp \in {"error", "500", "204", "200"}, raw \in ServerETags(md5Sum) :
       /\ Success2xx(resp) => (upPC = "await")
       /\ respStatus' = IF resp = "error" THEN "none" ELSE resp
       /\ respETag' = IF Success2xx(resp) THEN raw ELSE NoETag
       /\ requestFailed' = IF resp = "error" THEN requestFailed + 1 ELSE requestFailed
       /\ etag' = IF StatusOK(resp) THEN extractETag(raw) ELSE etag
       /\ Exit(IF resp = "error" THEN "PutRequestError"
               ELSE IF ~StatusOK(resp) THEN "StatusCodeError" ELSE Nil)
  /\ UNCHANGED <<call, bodyVars, s3Vars, envVars, uploadCtxErr, sfrVars, localFile, wclosed, pipeErr,
                 partFill,
                 cmu, drained, consumed, clPC, partPuts, putSent, completeSent,
                 abortSent, deleteSent, respBody, uploadsOpen>>

\* httpClient.Do returns: a request error or an error status at any time, a
\* success status once the body was sent; then extractETag and compareMD5
newObjectReturns ==
  /\ upPC \in {"streaming", "await"}
  /\ \E resp \in {"error", "500", "204", "200"}, raw \in ServerETags(md5Sum) :
       /\ Success2xx(resp) => (upPC = "await")
       /\ respStatus' = IF resp = "error" THEN "none" ELSE resp
       /\ respETag' = IF Success2xx(resp) THEN raw ELSE NoETag
       /\ requestFailed' = IF resp = "error" THEN requestFailed + 1 ELSE requestFailed
       /\ IF resp = "error"
            THEN /\ Exit("PutRequestError")
                 /\ UNCHANGED etag
            ELSE IF ~StatusOK(resp)
              THEN /\ Exit("StatusCodeError")
                   /\ UNCHANGED etag
              ELSE /\ etag' = extractETag(raw)
                   /\ Exit(IF opts.SkipETagVerify THEN Nil
                           ELSE compareMD5(md5Sum, extractETag(raw)))
  /\ UNCHANGED <<call, bodyVars, s3Vars, envVars, uploadCtxErr, sfrVars, localFile, wclosed, pipeErr,
                 partFill,
                 cmu, drained, consumed, clPC, partPuts, putSent, completeSent,
                 abortSent, deleteSent, respBody, uploadsOpen>>

\* the cleanup goroutine of newObject: <-o.ctx.Done()
newObjectCleanup ==
  /\ ~IsMultipart
  /\ clPC = "wait_upload"
  /\ UploadCtxDone
  /\ clPC' = "wait_ctx"
  /\ UNCHANGED <<call, bodyVars, s3Vars, envVars, uploadCtxErr, sfrVars, localFile, wclosed, pipeErr,
                 upVars,
                 reqVars, metricVars>>

\* the cleanup goroutine of newObject: <-ctx.Done() and o.delete()
newObjectDelete ==
  /\ ~IsMultipart
  /\ clPC = "wait_ctx"
  /\ ctxDone
  /\ deleteSent' = syncAndDelete(opts.PresignedDelete, deleteSent)
  /\ clPC' = "done"
  /\ UNCHANGED <<call, bodyVars, s3Vars, envVars, uploadCtxErr, sfrVars, localFile, wclosed, pipeErr,
                 upVars,
                 partPuts, putSent, completeSent, abortSent, respVars, metricVars>>

\* ---- the system ----

Tee ==
  \/ SaveFileFromReader
  \/ CopyLocal
  \/ CopyReadError
  \/ CopyEOF
  \/ CopyWriteError
  \/ RemoteCloseReturns
  \/ DeferredCloseReturns

Upload ==
  \/ createTempFile
  \/ readAndUploadOnePart
  \/ readAndUploadOnePartEOF
  \/ readAndUploadOnePartDiskError
  \/ uploadPart
  \/ uploadPartReturns
  \/ drain
  \/ drainEOF
  \/ complete
  \/ completeReturns
  \/ newObject
  \/ newObjectBody
  \/ newObjectBodyEOF
  \/ newObjectReturns
  \/ deferCloseWithError
  \/ deferCancelFn

Cleanup ==
  \/ cleanup
  \/ cleanupDelete
  \/ newObjectCleanup
  \/ newObjectDelete
  \/ RemoveLocalFile

Environment ==
  \/ CancelRequest
  \/ DeadlineExpire

Next == Tee \/ Upload \/ Cleanup \/ Environment

Spec == Init /\ [][Next]_vars

TypeOK ==
  /\ call.fn \in {"none", "GetOpts", "ObjectStoragePreparer.Prepare",
                 "lfs.Prepare", "lfs.Verify", "GitLabFinalizeFields"}
  /\ opts \in OptsSet
  /\ partBuf \in Seq(1..PartBudget) /\ Len(partBuf) <= MaxPartSize
  /\ tempFiles \in 0..1
  /\ fileClosed \in BOOLEAN
  /\ \A i \in 1..MaxParts : Len(partBodies[i]) <= MaxPartSize
  /\ \A i \in 1..MaxParts : partETags[i] \in {NoAnswer, md5Sum, WrongETag}
  /\ size \in -1..MaxLen
  /\ ctxDone \in BOOLEAN
  /\ uploadCtxErr \in {Nil, Canceled, DeadlineExceeded}
  /\ fhSize \in 0..(MaxLen + 2)
  /\ hashed \in 0..(MaxLen + 2)
  /\ localBytes \in 0..(MaxLen + 2)
  /\ consumed \in 0..(IF IsMultipart THEN PartBudget + 2 ELSE MaxLen + 2)
  /\ partFill \in 0..MaxPartSize
  /\ Len(cmu) <= opts.NumParts
  /\ uploadsOpen \in 0..1
  /\ putSent \in 0..1 /\ completeSent \in 0..1 /\ abortSent \in 0..1 /\ deleteSent \in 0..1
  /\ s3ObjectName \in BOOLEAN /\ s3Stored \in BOOLEAN /\ s3DeleteSent \in 0..1

\* ---- a writer that never stops ----

\* The caller of Write keeps writing: the stream has no end and no sink but
\* the remote one, so every round of io.Copy is a Write on the uploader.
LiveInit ==
  /\ Init
  /\ IsRemote
  /\ ~IsLocal
  /\ size = -1

LiveNext ==
  \/ SaveFileFromReader
  \/ CopyWriteError
  \/ DeferredCloseReturns
  \/ createTempFile
  \/ readAndUploadOnePart
  \/ readAndUploadOnePartDiskError
  \/ uploadPart
  \/ uploadPartReturns
  \/ drain
  \/ newObject
  \/ newObjectBody
  \/ newObjectReturns
  \/ deferCloseWithError
  \/ deferCancelFn
  \/ cleanup
  \/ cleanupDelete
  \/ newObjectCleanup
  \/ newObjectDelete
  \/ CancelRequest
  \/ DeadlineExpire

\* Every goroutine that can run does run, a Write on a closed pipe returns,
\* and a request whose context is done returns.
LiveFairness ==
  /\ WF_vars(CopyWriteError)
  /\ WF_vars(DeferredCloseReturns)
  /\ WF_vars(createTempFile)
  /\ WF_vars(readAndUploadOnePart)
  /\ WF_vars(uploadPart)
  /\ WF_vars(UploadCtxDone /\ uploadPartReturns)
  /\ WF_vars(drain)
  /\ WF_vars(newObject)
  /\ WF_vars(UploadCtxDone /\ newObjectReturns)
  /\ WF_vars(deferCloseWithError)
  /\ WF_vars(deferCancelFn)
  /\ WF_vars(cleanup)
  /\ WF_vars(cleanupDelete)
  /\ WF_vars(newObjectCleanup)
  /\ WF_vars(newObjectDelete)

LiveSpec == LiveInit /\ [][LiveNext]_vars /\ LiveFairness

\* ---- calls with a local sink ----

\* the calls whose options name a local temp path, alone or next to the
\* presigned PUT URL
LocalInit ==
  /\ Init
  /\ IsLocal
  /\ ~IsMultipart

LocalNext ==
  \/ Tee
  \/ newObject
  \/ newObjectBody
  \/ newObjectBodyEOF
  \/ newObjectReturns
  \/ deferCloseWithError
  \/ deferCancelFn
  \/ newObjectCleanup
  \/ newObjectDelete
  \/ RemoveLocalFile
  \/ Environment

\* the goroutine that uploadLocalFile starts does run
LocalFairness == WF_vars(RemoveLocalFile)

LocalSpec == LocalInit /\ [][LocalNext]_vars /\ LocalFairness

\* ---- the native S3 uploader (S3Object) ----

\* The caller holds an S3Object as the tests of the package do: it copies a
\* stream of at most MaxLen chunks into it and closes it.  sfrPC is the
\* position of that caller and fhSize the number of chunks it wrote.

\* the state in which NewS3Object is called: no presigned sink is involved
S3Init ==
  /\ Init
  /\ opts = [PartSize |-> 0, NumParts |-> 0, PresignedPut |-> FALSE,
             PresignedDelete |-> FALSE, PresignedAbortMultipart |-> FALSE,
             LocalTempPath |-> FALSE, SkipETagVerify |-> FALSE]
  /\ size = -1

\* NewS3Object: the pipe, the gauge, the upload context, and the goroutines
\* trackUploadTime, cleanup and the upload goroutine are started
NewS3Object ==
  /\ sfrPC = "start"
  /\ uploadsOpen' = uploadsOpen + 1
  /\ uploadCtxErr' = WithDeadline
  /\ upPC' = "s3_session"
  /\ clPC' = "wait_upload"
  /\ sfrPC' = "copy"
  /\ UNCHANGED <<call, bodyVars, s3Vars, envVars, fhSize, hashed, localBytes, result, fileClosed, closeErr,
                 fhETag, localFile, wclosed,
                 pipeErr, partFill, cmu, drained, consumed, uploadError, etag,
                 reqVars, requestFailed>>

\* session.NewSession fails, or o.session and o.objectName are set
s3NewSession ==
  /\ upPC = "s3_session"
  /\ \E ok \in BOOLEAN :
       IF ok THEN /\ s3ObjectName' = TRUE
                  /\ upPC' = "s3_upload"
                  /\ UNCHANGED uploadError
             ELSE /\ Exit("SessionError")
                  /\ UNCHANGED s3ObjectName
  /\ UNCHANGED <<s3Stored, s3DeleteSent, call, bodyVars, envVars, uploadCtxErr, sfrVars, localFile,
                 wclosed, pipeErr, partFill, cmu, drained, consumed, etag, clPC,
                 reqVars, metricVars>>

\* io.Copy(object, src): a Write hands a chunk to the pipe, from which
\* UploadWithContext reads its Body
s3UploadRead ==
  /\ upPC = "s3_upload"
  /\ sfrPC = "copy"
  /\ uploaderWrite
  /\ fhSize < MaxLen
  /\ fhSize' = fhSize + 1
  /\ consumed' = consumed + 1
  /\ UNCHANGED <<call, bodyVars, s3Vars, envVars, uploadCtxErr, sfrPC, hashed, localBytes, result, fileClosed,
                 closeErr, fhETag, localFile, wclosed, pipeErr, upPC, partFill, cmu,
                 drained, uploadError, etag, clPC, reqVars, metricVars>>

\* io.Copy(object, src): a Write on the closed pipe returns its error, and
\* the caller gives up
S3WriteError ==
  /\ sfrPC = "copy"
  /\ ~uploaderWrite
  /\ sfrPC' = "returned"
  /\ UNCHANGED <<call, bodyVars, s3Vars, envVars, uploadCtxErr, fhSize, hashed, localBytes, result, fileClosed,
                 closeErr, fhETag,
                 localFile, wclosed, pipeErr, upVars, clPC, reqVars, metricVars>>

\* object.Close(), first half: the writer end of the pipe is closed
S3Close ==
  /\ sfrPC = "copy"
  /\ wclosed' = TRUE
  /\ sfrPC' = "close_wait"
  /\ UNCHANGED <<call, bodyVars, s3Vars, envVars, uploadCtxErr, fhSize, hashed, localBytes, result, fileClosed,
                 closeErr, fhETag,
                 localFile, pipeErr, upVars, clPC, reqVars, metricVars>>

\* object.Close(), second half: the upload context is done
S3CloseReturns ==
  /\ sfrPC = "close_wait"
  /\ UploadCtxDone
  /\ closeErr' = uploaderClose
  /\ sfrPC' = "returned"
  /\ UNCHANGED <<call, bodyVars, s3Vars, envVars, uploadCtxErr, fhSize, hashed, localBytes, result, fileClosed,
                 fhETag, localFile,
                 wclosed, pipeErr, upVars, clPC, reqVars, metricVars>>

\* UploadWithContext returns.  It returns nil when it has read the Body to
\* its end and the bucket has stored the object, which takes an upload
\* context that is not done; it returns an error at any time, and the bucket
\* may hold the object all the same when the Body was sent whole.
s3UploadReturns ==
  /\ upPC = "s3_upload"
  /\ \E ok \in BOOLEAN, stored \in BOOLEAN :
       /\ ok => (wclosed /\ ~UploadCtxDone /\ stored)
       /\ (stored /\ ~ok) => (wclosed /\ ~UploadCtxDone)
       /\ s3Stored' = stored
       /\ requestFailed' = IF ok THEN requestFailed ELSE requestFailed + 1
       /\ Exit(IF ok THEN Nil ELSE "UploadError")
  /\ UNCHANGED <<s3ObjectName, s3DeleteSent, call, bodyVars, envVars, uploadCtxErr, sfrVars, localFile,
                 wclosed, pipeErr, partFill, cmu, drained, consumed, etag, clPC,
                 reqVars, uploadsOpen>>

\* a delete whose DeleteObject request carries the context of the request
deleteCtxIsRequestCtx == ctxDone

\* deleteCtx: context.WithTimeout(context.Background(), 60 * time.Second) is
\* not done when the request is made
deleteCtxDone == FALSE

\* S3Object.delete: nothing without session and objectName; else the
\* DeleteObject request, which is not sent on a done context and which the
\* bucket carries out
s3delete ==
  IF s3ObjectName /\ ~deleteCtxDone
    THEN /\ s3DeleteSent' = s3DeleteSent + 1
         /\ s3Stored' = FALSE
    ELSE UNCHANGED <<s3DeleteSent, s3Stored>>

\* S3Object.cleanup: <-o.ctx.Done(), then the test of uploadError
s3cleanup ==
  /\ clPC = "wait_upload"
  /\ upPC # "idle"
  /\ UploadCtxDone
  /\ IF uploadError # Nil
       THEN /\ requestFailed' = requestFailed + 1
            /\ s3delete
            /\ clPC' = "done"
       ELSE /\ clPC' = "wait_ctx"
            /\ UNCHANGED <<requestFailed, s3DeleteSent, s3Stored>>
  /\ UNCHANGED <<s3ObjectName, call, bodyVars, envVars, uploadCtxErr, sfrVars, localFile, wclosed,
                 pipeErr, upVars, reqVars, uploadsOpen>>

\* S3Object.cleanup: <-ctx.Done() and o.delete()
s3cleanupDelete ==
  /\ clPC = "wait_ctx"
  /\ ctxDone
  /\ s3delete
  /\ clPC' = "done"
  /\ UNCHANGED <<s3ObjectName, call, bodyVars, envVars, uploadCtxErr, sfrVars, localFile, wclosed,
                 pipeErr, upVars, reqVars, metricVars>>

S3Next ==
  \/ NewS3Object
  \/ s3UploadRead
  \/ S3WriteError
  \/ S3Close
  \/ S3CloseReturns
  \/ s3NewSession
  \/ s3UploadReturns
  \/ deferCloseWithError
  \/ deferCancelFn
  \/ s3cleanup
  \/ s3cleanupDelete
  \/ CancelRequest
  \/ DeadlineExpire

\* every goroutine that can run does run
S3Fairness ==
  /\ WF_vars(s3NewSession)
  /\ WF_vars(deferCloseWithError)
  /\ WF_vars(deferCancelFn)
  /\ WF_vars(s3cleanup)
  /\ WF_vars(s3cleanupDelete)
  /\ WF_vars(S3CloseReturns)

S3Spec == S3Init /\ [][S3Next]_vars /\ S3Fairness

\* ---- the claims ----

\* the upload goroutine has returned
UploadExited == upPC \in {"exit_close", "exit_cancel", "done"}

\* C1: SaveFileFromReader returns a FileHandler only if the size check passed
\* and, for a remote upload, Close returned nil and the remote store
\* acknowledged the upload (the goroutine ended without error on a 200
\* response); every other return carries no FileHandler and an error.
C1_FileHandlerOnlyIfAcknowledged ==
  /\ result.fh =>
       /\ ~(size >= 0 /\ fhSize # size)
       /\ IsRemote => /\ closeErr = Nil
                      /\ UploadExited
                      /\ uploadError = Nil
                      /\ respStatus = "200"
  /\ (result # NoResult /\ ~result.fh) => result.err \notin {Nil, "unset"}

\* C2: when io.Copy has returned without error, a declared size (>= 0) that
\* differs from the bytes copied makes SaveFileFromReader return SizeError and
\* no FileHandler; with size -1, or with equal sizes, no SizeError is returned.
C2_SizeCheck ==
  [][/\ CopyEOF => IF size >= 0 /\ fhSize # size
                     THEN result' = Failure("SizeError")
                     ELSE result'.err # "SizeError"
     /\ (result'.err = "SizeError") => (size # -1 /\ ~result'.fh)]_vars

\* C2: a call with a declared size has returned SizeError
C2_Witness ==
  /\ sfrPC = "returned"
  /\ result = Failure("SizeError")
  /\ size >= 0
  /\ fhSize # size

\* C3: a multipart upload records ErrNotEnoughParts only for a stream longer
\* than partSize * len(partURLs) and then has sent no completion request;
\* SaveFileFromReader maps it to ErrEntityTooLarge; no completion request is
\* ever sent for a longer stream; and Close on a longer stream returns
\* ErrNotEnoughParts when the upload context ended with the upload goroutine
\* (not by its deadline, not through the context of the request).
C3_NotEnoughParts ==
  /\ (uploadError = ErrNotEnoughParts) =>
       (IsMultipart /\ consumed > PartBudget /\ completeSent = 0)
  /\ (closeErr = ErrNotEnoughParts) => (result = Failure(ErrEntityTooLarge))
  /\ (IsMultipart /\ consumed > PartBudget) => (completeSent = 0)
  /\ (IsMultipart /\ closeErr # "unset" /\ consumed > PartBudget
        /\ ~ctxDone /\ uploadCtxErr # DeadlineExceeded) =>
       (closeErr = ErrNotEnoughParts)

\* C3: Close returned ErrNotEnoughParts for a stream longer than the budget
\* of a multipart upload with part URLs
C3_Witness ==
  /\ opts.NumParts > 0
  /\ consumed > PartBudget
  /\ closeErr = ErrNotEnoughParts
  /\ result = Failure(ErrEntityTooLarge)
  /\ sfrPC = "returned"

\* C4: when a multipart upload with an abort URL has ended with an error and
\* its cleanup goroutine has returned, the abort URL has been requested.
C4_FailedMultipartAborts ==
  (IsMultipart /\ opts.PresignedAbortMultipart /\ UploadExited
     /\ uploadError # Nil /\ clPC = "done") => (abortSent > 0)

C6_SuccessNeverAborts ==
  (IsMultipart /\ UploadExited /\ uploadError = Nil) =>
    (abortSent = 0 /\ (deleteSent > 0 => ctxDone))

\* C6: a multipart upload completed on a 200 response and its object was
\* deleted after the request
C6_Witness ==
  /\ IsMultipart
  /\ opts.PresignedAbortMultipart
  /\ upPC = "done"
  /\ uploadError = Nil
  /\ completeSent = 1
  /\ respStatus = "200"
  /\ deleteSent = 1

\* C7: when an upload with a delete URL has failed on an ETag mismatch and its
\* cleanup goroutine has returned, the delete URL has been requested.
C7_ETagMismatchDeletes ==
  (uploadError = "ETagMismatch" /\ opts.PresignedDelete /\ clPC = "done") =>
    (deleteSent > 0)

\* C8: once the deadline of the upload context has expired, no Write on the
\* multipart uploader succeeds, neither while a part is buffered nor while the
\* pipe is drained.
C8_NoWriteAfterDeadline ==
  [][(uploadCtxErr = DeadlineExceeded) => ~(readAndUploadOnePart \/ drain)]_vars

\* C9: after the context passed to the constructor is cancelled, a writer
\* that keeps writing eventually gets an error from Write.
C9_WriterEventuallyFails ==
  (ctxDone /\ sfrPC = "copy") ~> (sfrPC # "copy")

\* C10: after SaveFileFromReader failed upstream of the remote sink (reader
\* error, local sink error, size check), no completion request has been sent
\* and no single PUT has ended without error.
C10_UpstreamFailureNeverCompletes ==
  (result.err \in {"ReadError", "LocalWriteError", "SizeError"}) =>
    /\ completeSent = 0
    /\ ~(~IsMultipart /\ UploadExited /\ uploadError = Nil)

\* C11: every part URL, the presigned PUT URL and the completion URL have
\* received at most one request: no request is repeated.
C11_NoRetry ==
  /\ \A i \in 1..MaxParts : partPuts[i] <= 1
  /\ putSent <= 1
  /\ completeSent <= 1

\* C11: the PUT of the first part was sent once and failed, the upload is over
C11_Witness ==
  /\ IsMultipart
  /\ upPC = "done"
  /\ uploadError = "PartError"
  /\ partPuts[1] = 1
  /\ cmu = <<>>
  /\ ~ctxDone
  /\ uploadCtxErr = Canceled

\* C12: when the completion request has been sent, io.Copy of the tee had
\* returned and the pipe writer was closed, no part PUT is in flight, and
\* every part PUT that was issued has returned a part with its ETag.
C12_CompleteAfterCloseAndParts ==
  (completeSent > 0) =>
    /\ wclosed
    /\ sfrPC \notin {"start", "copy"}
    /\ upPC # "put_wait"
    /\ Cardinality({i \in 1..MaxParts : partPuts[i] > 0}) = Len(cmu)
    /\ \A i \in 1..Len(cmu) : cmu[i].ETag # NoETag

\* C12: a completion request was sent for an upload of two parts
C12_Witness ==
  /\ completeSent = 1
  /\ Len(cmu) = 2
  /\ partPuts[1] = 1
  /\ partPuts[2] = 1
  /\ wclosed

\* C13: with ETag verification on, a multipart upload ends without error only
\* after a completion response that carried a result whose ETag, quotes and
\* letter case aside, spells the MD5 of the part digests followed by "-" and
\* the number of parts; after such a response the upload is successful
\* exactly when the ETag has that value, upper-case or not, and fails with
\* the ETag mismatch otherwise; and Close returns the mismatch when the
\* upload context ended with the upload goroutine.
C13_MultipartETagVerified ==
  (IsMultipart /\ ~opts.SkipETagVerify) =>
    LET right == respETag.hex = "md5 of md5s" /\ respETag.parts = Len(cmu)
    IN /\ (UploadExited /\ uploadError = Nil) =>
            (respStatus = "200" /\ respBody = "result" /\ right)
       /\ (respBody = "result") =>
            /\ UploadExited
            /\ uploadError = IF right THEN Nil ELSE "ETagMismatch"
            /\ etag = [respETag EXCEPT !.quoted = FALSE]
       /\ (closeErr # "unset" /\ respBody = "result" /\ ~right
             /\ ~ctxDone /\ uploadCtxErr # DeadlineExceeded) =>
            (closeErr = "ETagMismatch" /\ ~result.fh)

\* C13: a multipart upload of two parts was accepted on an upper-case ETag
C13_Witness ==
  /\ IsMultipart /\ ~opts.SkipETagVerify
  /\ Len(cmu) = 2
  /\ respBody = "result"
  /\ respETag = ETag("md5 of md5s", 2, TRUE, FALSE)
  /\ closeErr = Nil
  /\ result.fh
  /\ fhETag = ETag("md5 of md5s", 2, TRUE, FALSE)

\* C14: with SkipETagVerify set, a multipart upload whose part PUTs were all
\* answered with 200 and whose completion was answered with 200 and a result
\* ends without error whatever ETags the answers carried: the abort URL is
\* never requested, and Close returns nil when the upload context ended with
\* the upload goroutine.
C14_SkipETagVerify ==
  (IsMultipart /\ opts.SkipETagVerify /\ respBody = "result") =>
    /\ respStatus = "200"
    /\ UploadExited
    /\ uploadError = Nil
    /\ abortSent = 0
    /\ requestFailed = 0
    /\ (closeErr # "unset" /\ ~ctxDone /\ uploadCtxErr # DeadlineExceeded) =>
         (closeErr = Nil)

\* C14: an upload with an abort URL succeeded on a part ETag and a completion
\* ETag that both differ from the local checksums, and its cleanup returned
C14_Witness ==
  /\ IsMultipart /\ opts.SkipETagVerify /\ opts.PresignedAbortMultipart
  /\ Len(cmu) = 2
  /\ cmu[1].ETag = WrongETag
  /\ respBody = "result"
  /\ respETag = WrongETag
  /\ closeErr = Nil
  /\ result.fh
  /\ clPC = "done"
  /\ abortSent = 0

\* C15: with ETag verification on, a single PUT ends without error only after
\* a 200 answer whose ETag, quotes and letter case aside, spells the MD5 of
\* the bytes written; after a 200 answer the upload error is nil exactly when
\* the ETag has that value and is the ETag mismatch otherwise; and Close
\* returns the mismatch when the upload context ended with the upload
\* goroutine.
C15_SinglePutETagVerified ==
  (IsRemote /\ ~IsMultipart /\ ~opts.SkipETagVerify) =>
    LET right == respETag.hex = "md5" /\ respETag.parts = 0
    IN /\ (UploadExited /\ uploadError = Nil) => (respStatus = "200" /\ right)
       /\ (respStatus = "200") =>
            /\ UploadExited
            /\ uploadError = IF right THEN Nil ELSE "ETagMismatch"
            /\ etag = [respETag EXCEPT !.quoted = FALSE]
       /\ (closeErr # "unset" /\ respStatus = "200" /\ ~right
             /\ ~ctxDone /\ uploadCtxErr # DeadlineExceeded) =>
            (closeErr = "ETagMismatch" /\ ~result.fh)

\* C15: Close of a single PUT returned the ETag mismatch
C15_Witness ==
  /\ IsRemote /\ ~IsMultipart /\ ~opts.SkipETagVerify
  /\ respStatus = "200"
  /\ respETag = WrongETag
  /\ uploadError = "ETagMismatch"
  /\ closeErr = "ETagMismatch"
  /\ result = Failure("ETagMismatch")

\* C16: once the PUT of a single-PUT upload was answered, the upload error is
\* a StatusCodeError exactly when the status is outside the 2xx class, and
\* an answer of the 2xx class without ETag mismatch ends the upload without
\* error and with the ETag of the answer captured.
C16_StatusCodeErrorIffNot2xx ==
  (IsRemote /\ ~IsMultipart /\ respStatus # "none") =>
    /\ (uploadError = "StatusCodeError") <=> (respStatus \notin {"200", "204"})
    /\ (respStatus \in {"200", "204"}) =>
         /\ uploadError \in {Nil, "ETagMismatch"}
         /\ etag = [respETag EXCEPT !.quoted = FALSE]

\* C17: after a completion answered with 200 and a body that is an Error, or
\* that holds no CompleteMultipartUploadResult, the upload has ended with an
\* error and without an ETag; when the upload context ended with the upload
\* goroutine, Close returns that error, and the cleanup requests the abort
\* URL and not the delete URL.
C17_ErrorBodyFails ==
  (IsMultipart /\ respStatus = "200" /\ respBody \in {"Error", "empty"}) =>
    /\ UploadExited
    /\ uploadError = "CompleteError"
    /\ etag = NoETag
    /\ ~(result.fh /\ fhETag.hex # "")
    /\ (~ctxDone /\ uploadCtxErr # DeadlineExceeded) =>
         /\ (closeErr # "unset") => (closeErr = "CompleteError" /\ ~result.fh)
         /\ (clPC = "done") =>
              /\ abortSent = (IF opts.PresignedAbortMultipart THEN 1 ELSE 0)
              /\ deleteSent = 0

\* C17: a completion answered with 200 and an Error body made Close fail and
\* the cleanup request the abort URL
C17_Witness ==
  /\ IsMultipart
  /\ respStatus = "200" /\ respBody = "Error"
  /\ closeErr = "CompleteError"
  /\ result = Failure("CompleteError")
  /\ clPC = "done"
  /\ abortSent = 1
  /\ ~ctxDone

\* C20: a single-PUT upload with a delete URL sends the DELETE at most once,
\* and only when the upload goroutine has returned and the context passed to
\* NewObject is done.
C20_DeleteAfterUploadAndContext ==
  (IsRemote /\ ~IsMultipart /\ opts.PresignedDelete) =>
    /\ deleteSent <= 1
    /\ (deleteSent > 0) => (ctxDone /\ UploadExited)

C19_FailedS3UploadDeletes ==
  (UploadExited /\ uploadError = "UploadError") =>
    /\ ~(clPC = "wait_ctx" /\ ~ctxDone)
    /\ (clPC = "done") => (s3DeleteSent = 1)

\* C21: when SaveFileFromReader has stored an ETag under hashes["etag"], the
\* upload goroutine has returned, so that it writes etag and uploadError no
\* more, and the stored value is the ETag of the answer of the remote, quotes
\* stripped.
C21_ETagReadAfterUploadEnded ==
  (fhETag # UnsetETag) =>
    /\ UploadExited
    /\ respStatus = "200"
    /\ fhETag = [respETag EXCEPT !.quoted = FALSE]

\* C22: a call creates at most one remote uploader; with a part size above 0
\* it is the multipart uploader, also when the presigned PUT URL is set, and
\* the presigned PUT URL then gets no request; without a part size it is the
\* single PUT and no multipart request is made; and once the sinks are
\* created, the local file exists exactly when a local temp path is set,
\* whatever the remote choice is.
C22_OneRemoteUploader ==
  /\ uploadsOpen <= 1
  /\ (opts.PartSize > 0) =>
       /\ putSent = 0
       /\ upPC \notin {"do", "streaming", "await"}
  /\ (opts.PartSize = 0) =>
       /\ \A i \in 1..MaxParts : partPuts[i] = 0
       /\ completeSent = 0 /\ abortSent = 0
       /\ upPC \notin {"tempfile", "buffer", "put", "put_wait", "drain", "complete", "complete_wait"}
  /\ (sfrPC = "copy") =>
       /\ (localFile # "none") <=> opts.LocalTempPath
       /\ (upPC # "idle") <=> (opts.PresignedPut \/ opts.PartSize > 0)

\* C22: a call with a part size, the presigned PUT URL and a local temp path
\* succeeded through the multipart uploader, with the local file written
C22_Witness ==
  /\ opts.PartSize > 0 /\ opts.PresignedPut /\ opts.LocalTempPath
  /\ result.fh
  /\ completeSent = 1
  /\ partPuts[1] = 1
  /\ putSent = 0
  /\ localFile = "exists"

\* C23: a call with neither a local temp path nor a remote destination has,
\* once it has started, returned the error "missing upload destination"
\* without a FileHandler, with no byte read, no file created, no uploader
\* constructed and no request sent; and the error is returned by no other
\* call.
C23_MissingDestination ==
  /\ (~opts.LocalTempPath /\ ~opts.PresignedPut /\ opts.PartSize = 0
        /\ sfrPC # "start") =>
       /\ sfrPC = "returned"
       /\ result = Failure("MissingDestination")
       /\ fhSize = 0 /\ consumed = 0
       /\ localFile = "none"
       /\ upPC = "idle" /\ clPC = "idle" /\ uploadsOpen = 0
       /\ putSent = 0 /\ completeSent = 0 /\ abortSent = 0 /\ deleteSent = 0
       /\ \A i \in 1..MaxParts : partPuts[i] = 0
  /\ (result.err = "MissingDestination") =>
       (~opts.LocalTempPath /\ ~opts.PresignedPut /\ opts.PartSize = 0)

\* C23: a call without destination returned the configuration error after
\* the request context was cancelled as well
C23_Witness ==
  /\ ~opts.LocalTempPath /\ ~opts.PresignedPut /\ opts.PartSize = 0
  /\ sfrPC = "returned"
  /\ result = Failure("MissingDestination")
  /\ ctxDone

\* C24: the local temp file is removed only when the context passed to
\* SaveFileFromReader is done, it does not come back, and once that context
\* is done a file that exists is eventually removed, whatever the call
\* returned.
C24_LocalFileRemovedOnContextDone ==
  /\ [](localFile = "removed" => ctxDone)
  /\ [][localFile = "removed" => localFile' = "removed"]_vars
  /\ (localFile = "exists" /\ ctxDone) ~> (localFile = "removed")

\* C24: the file of a successful call was removed after the cancellation
C24_Witness ==
  /\ IsLocal
  /\ result.fh
  /\ fhSize = MaxLen
  /\ ctxDone
  /\ localFile = "removed"

\* C25: when SaveFileFromReader has returned a FileHandler, its Size is the
\* number of bytes read from the stream and, when a size was declared, that
\* size; the md5 and sha256 entries are the digests of that many bytes of
\* the stream; and the local file and the remote uploader have each
\* received that many bytes (for the uploader, within the range in which
\* the byte counters are exact).
C25_SizeAndHashesOfStream ==
  result.fh =>
    /\ hashed = fhSize
    /\ (size >= 0) => (fhSize = size)
    /\ finish.md5 = <<"md5", fhSize>>
    /\ finish.sha256 = <<"sha256", fhSize>>
    /\ opts.LocalTempPath => (localBytes = fhSize)
    /\ ~opts.LocalTempPath => (localBytes = 0)
    /\ ((opts.PresignedPut \/ opts.PartSize > 0) /\ fhSize <= MaxLen) =>
         (consumed = fhSize)

\* C25: a stream of the declared size MaxLen went to a local file and to a
\* multipart upload
C25_Witness ==
  /\ opts.LocalTempPath /\ opts.PartSize > 0
  /\ size = MaxLen
  /\ result.fh
  /\ fhSize = MaxLen /\ hashed = MaxLen
  /\ localBytes = MaxLen /\ consumed = MaxLen
  /\ completeSent = 1 /\ uploadError = Nil /\ ~ctxDone

\* ---------------------------------------------------------------------------
\* Upload preparation: configuration lookup, GetOpts and the preparers.
\* These are side-effect-free; PureSpec draws their arguments from bounded sets
\* and records each call in the variable call.
\* A nil pointer or nil interface is the empty set, a non-nil one a singleton.
\* ---------------------------------------------------------------------------

\* const DefaultObjectStoreTimeout = 4 * time.Hour, in seconds
DefaultObjectStoreTimeout == 14400

ZeroS3Config == [Region |-> "", Bucket |-> ""]
ZeroObjectStorageConfig ==
  [Enabled |-> FALSE, Provider |-> "", S3Config |-> ZeroS3Config]

\* entries of the object_storage table of the configuration file
ObjectStorageConfigs ==
  { [Enabled |-> TRUE, Provider |-> "AWS",
     S3Config |-> [Region |-> "us-east-1", Bucket |-> "uploads"]],
    [Enabled |-> FALSE, Provider |-> "AWS",
     S3Config |-> [Region |-> "us-east-1", Bucket |-> "lfs"]],
    [Enabled |-> TRUE, Provider |-> "", S3Config |-> ZeroS3Config] }

StorageNames == {"lfs", "uploads"}

\* config.Config: ObjectStorages maps some of the storage names to an entry
Configs ==
  { [ObjectStorages |-> m] :
      m \in UNION { [S -> ObjectStorageConfigs] : S \in SUBSET StorageNames } }

\* the names a preparer is built for
LookupNames == StorageNames \cup {"unknown"}

\* header maps of an authorization response (nil is the empty map here)
HeaderMaps ==
  { {},
    {<<"Content-Type", "image/jpeg">>},
    {<<"Content-Type", "application/octet-stream">>, <<"x-amz-acl", "private">>} }

DefaultPutHeaders == {<<"Content-Type", "application/octet-stream">>}

\* api.MultipartUploadParams of a response
MultipartParams ==
  { [PartSize |-> MaxPartSize, PartURLs |-> <<"part1">>,
     CompleteURL |-> "complete", AbortURL |-> "abort"] }

\* api.RemoteObject of a response
RemoteObjects ==
  [ID : {"id"}, GetURL : {"get"}, StoreURL : {"", "store"},
   DeleteURL : {"delete"}, Timeout : {0, 1},
   PutHeaders : HeaderMaps, CustomPutHeaders : BOOLEAN,
   UseWorkhorseClient : BOOLEAN, RemoteTempObjectID : {"tmp-id"},
   ObjectStorage : {{}, {[Provider |-> "AWS",
                         S3Config |-> [Region |-> "eu-1", Bucket |-> "tmp"]]}},
   MultipartUpload : {{}} \cup {{m} : m \in MultipartParams}]

\* the empty LfsOid
NoOid == <<>>

\* api.Response, without the LFS fields
ApiResponses ==
  [TempPath : {"", "/tmp/upload"}, LfsOid : {NoOid}, LfsSize : {0},
   RemoteObject : RemoteObjects]

\* Config.FindObjectStorageConfig
FindObjectStorageConfig(c, name) ==
  IF name \in DOMAIN c.ObjectStorages
    THEN [cfg |-> {c.ObjectStorages[name]}, err |-> Nil]
    ELSE [cfg |-> {}, err |-> "unable to find object storage"]

\* the headers kept although the response declares none of its own
PutHeadersAddsContentType(ro) ==
  IF ~ro.CustomPutHeaders THEN ro.PutHeaders \cup DefaultPutHeaders
                          ELSE ro.PutHeaders

\* GetOpts: PutHeaders of the options
PutHeadersOf(ro) ==
  IF ~ro.CustomPutHeaders THEN DefaultPutHeaders ELSE ro.PutHeaders

\* GetOpts; Deadline is counted in seconds from time.Now()
GetOpts(apiResponse) ==
  LET ro == apiResponse.RemoteObject
      timeout == IF ro.Timeout = 0 THEN DefaultObjectStoreTimeout
                                   ELSE ro.Timeout
      params == ro.ObjectStorage
      multi == ro.MultipartUpload
  IN [LocalTempPath |-> apiResponse.TempPath,
      TempFilePrefix |-> NoOid,
      RemoteID |-> ro.ID,
      RemoteURL |-> ro.GetURL,
      PresignedPut |-> ro.StoreURL,
      PresignedDelete |-> ro.DeleteURL,
      PutHeaders |-> PutHeadersOf(ro),
      UseWorkhorseClient |-> ro.UseWorkhorseClient,
      RemoteTempObjectID |-> ro.RemoteTempObjectID,
      Deadline |-> timeout,
      ObjectStorageConfig |->
        IF ro.UseWorkhorseClient /\ params # {}
          THEN LET o == CHOOSE x \in params : TRUE
               IN [ZeroObjectStorageConfig EXCEPT !.Provider = o.Provider,
                                                  !.S3Config = o.S3Config]
          ELSE ZeroObjectStorageConfig,
      PartSize |-> IF multi # {} THEN (CHOOSE m \in multi : TRUE).PartSize
                                 ELSE 0,
      PresignedCompleteMultipart |->
        IF multi # {} THEN (CHOOSE m \in multi : TRUE).CompleteURL ELSE "",
      PresignedAbortMultipart |->
        IF multi # {} THEN (CHOOSE m \in multi : TRUE).AbortURL ELSE "",
      PresignedParts |->
        IF multi # {} THEN (CHOOSE m \in multi : TRUE).PartURLs ELSE <<>>]

\* a preparer that enables object storage for a name that is not configured
NewObjectStoragePreparerEnabled(name, c) ==
  LET r == FindObjectStorageConfig(c, name)
      cfg == IF r.err # Nil
               THEN [ZeroObjectStorageConfig EXCEPT !.Enabled = TRUE]
               ELSE CHOOSE x \in r.cfg : TRUE
  IN [objectStorageConfig |-> cfg]

\* NewObjectStoragePreparer: a name that is not configured gives
\* &config.ObjectStorageConfig{Enabled: false}
NewObjectStoragePreparer(name, c) ==
  LET r == FindObjectStorageConfig(c, name)
      cfg == IF r.err # Nil THEN ZeroObjectStorageConfig
                            ELSE CHOOSE x \in r.cfg : TRUE
  IN [objectStorageConfig |-> cfg]

\* ObjectStoragePreparer.Prepare: options, verifier, error
ObjectStoragePreparerPrepare(p, a) ==
  [opts |-> [GetOpts(a) EXCEPT !.ObjectStorageConfig = p.objectStorageConfig],
   verifier |-> {}, err |-> Nil]

\* the responses the preparers are called with
PrepareResponses ==
  { a \in ApiResponses : /\ a.RemoteObject.Timeout = 0
                         /\ a.RemoteObject.MultipartUpload = {}
                         /\ a.RemoteObject.PutHeaders = {} }

\* the variables of an upload, which a call of these functions leaves alone
uploadVars ==
  <<bodyVars, s3Vars, envVars, uploadCtxErr, sfrVars, upVars, localFile, wclosed,
    pipeErr, clPC, reqVars, metricVars>>

\* a call of GetOpts
CallGetOpts ==
  /\ call.fn = "none"
  /\ \E a \in ApiResponses :
       call' = [fn |-> "GetOpts", in |-> [a |-> a], out |-> GetOpts(a)]
  /\ UNCHANGED uploadVars

\* NewObjectStoragePreparer(name, c).Prepare(a)
CallObjectStoragePrepare ==
  /\ call.fn = "none"
  /\ \E name \in LookupNames, c \in Configs, a \in PrepareResponses :
       call' = [fn |-> "ObjectStoragePreparer.Prepare",
                in |-> [name |-> name, c |-> c, a |-> a],
                out |-> ObjectStoragePreparerPrepare(
                          NewObjectStoragePreparer(name, c), a)]
  /\ UNCHANGED uploadVars

\* ---- LFS ----
\* the oid of an LFS object is the SHA-256 of its content; the content is
\* known here by its length
LfsOids == { Digest("sha256", n) : n \in 0..MaxLen }

\* the authorization responses of an LFS upload
LfsResponses ==
  { [a EXCEPT !.LfsOid = o, !.LfsSize = s] :
      a \in PrepareResponses, o \in LfsOids, s \in 0..MaxLen }

\* the FileHandlers a verifier is called with
FileHandlers ==
  { [Name |-> nm, LocalPath |-> lp, RemoteURL |-> ru, RemoteID |-> ri,
     Size |-> sz,
     hashes |-> [md5 |-> Digest("md5", n), sha256 |-> Digest("sha256", n)]] :
      nm \in {"upload"}, lp \in {"", "/tmp/upload123"},
      ru \in {"", "get"}, ri \in {"", "id"},
      sz \in 0..MaxLen, n \in 0..MaxLen }

\* FileHandler.SHA256
SHA256(fh) == fh.hashes.sha256

\* a verifier that does not look at the hash
VerifySizeOnly(l, fh) ==
  IF fh.Size # l.size THEN "LFSObject: expected size" ELSE Nil

\* object.Verify
Verify(l, fh) ==
  IF fh.Size # l.size THEN "LFSObject: expected size"
  ELSE IF SHA256(fh) # l.oid THEN "LFSObject: expected sha256"
  ELSE Nil

\* NewLfsUploadPreparer
NewLfsUploadPreparer(c) ==
  LET r == FindObjectStorageConfig(c, "lfs")
      cfg == IF r.err # Nil THEN ZeroObjectStorageConfig
                            ELSE CHOOSE x \in r.cfg : TRUE
  IN [objectStorageConfig |-> cfg]

\* uploadPreparer.Prepare: options, verifier, error
lfsPrepare(l, a) ==
  [opts |-> [GetOpts(a) EXCEPT !.TempFilePrefix = a.LfsOid,
                               !.ObjectStorageConfig = l.objectStorageConfig],
   verifier |-> {[oid |-> a.LfsOid, size |-> a.LfsSize]},
   err |-> Nil]

\* NewLfsUploadPreparer(c).Prepare(a)
CallLfsPrepare ==
  /\ call.fn = "none"
  /\ \E c \in Configs, a \in LfsResponses :
       call' = [fn |-> "lfs.Prepare", in |-> [c |-> c, a |-> a],
                out |-> lfsPrepare(NewLfsUploadPreparer(c), a)]
  /\ UNCHANGED uploadVars

\* the verifier that Prepare returned is called with the FileHandler of the
\* upload
CallLfsVerify ==
  /\ call.fn = "lfs.Prepare"
  /\ \E fh \in FileHandlers :
       LET v == CHOOSE x \in call.out.verifier : TRUE
       IN call' = [fn |-> "lfs.Verify",
                   in |-> [oid |-> call.in.a.LfsOid,
                           size |-> call.in.a.LfsSize, fh |-> fh],
                   out |-> [err |-> Verify(v, fh)]]
  /\ UNCHANGED uploadVars

\* ---- finalization fields ----
Digit == <<"0", "1", "2", "3", "4", "5", "6", "7", "8", "9">>

\* strconv.FormatInt(n, 10)
RECURSIVE FormatInt(_)
FormatInt(n) ==
  IF n < 0 THEN "-" \o FormatInt(-n)
  ELSE IF n < 10 THEN Digit[n + 1]
  ELSE FormatInt(n \div 10) \o Digit[(n % 10) + 1]

\* a key that carries the separator also when the prefix is empty
keyAlwaysDotted(prefix, field) == prefix \o "." \o field

\* GitLabFinalizeFields: key
key(prefix, field) ==
  IF prefix = "" THEN field ELSE prefix \o "." \o field

\* GitLabFinalizeFields: the fields of the first loop
fields(fh) ==
  [name |-> fh.Name, path |-> fh.LocalPath, remote_url |-> fh.RemoteURL,
   remote_id |-> fh.RemoteID, size |-> FormatInt(fh.Size)]

\* GitLabFinalizeFields: signedData after both loops; the hashes are written
\* last
signedData(fh) == fh.hashes @@ fields(fh)

\* secret.DefaultClaims
DefaultClaims == [iss |-> "gitlab-workhorse"]

\* the signing secret: not loadable, or loaded
Secrets == {{}, {"secret"}}

\* secret.JWTTokenString: HS256 over the compact encoding of the claims; the
\* token is kept as its three parts
JWTTokenString(claims, secret) ==
  IF secret = {}
    THEN [token |-> {}, err |-> "secret.Bytes"]
    ELSE [token |-> {[header |-> "HS256", claims |-> claims,
                      signedWith |-> CHOOSE s \in secret : TRUE]},
          err |-> Nil]

\* the FileHandlers of an upload, with sizes of one and two digits
FinalizeHandlers ==
  FileHandlers \cup { [fh EXCEPT !.Size = 10 * MaxLen + fh.Size] :
                        fh \in FileHandlers }

Prefixes == {"", "file"}

\* FileHandler.GitLabFinalizeFields: the map (nil with an error) and the error
GitLabFinalizeFields(fh, prefix, secret) ==
  LET signed == signedData(fh)
      jwt == JWTTokenString([upload |-> signed] @@ DefaultClaims, secret)
      tokenKey == key(prefix, "gitlab-workhorse-upload")
      keys == { key(prefix, f) : f \in DOMAIN signed } \cup {tokenKey}
  IN IF jwt.err # Nil
       THEN [data |-> {}, err |-> jwt.err]
       ELSE [data |->
               {[k \in keys |->
                   IF k = tokenKey
                     THEN CHOOSE tok \in jwt.token : TRUE
                     ELSE signed[CHOOSE f \in DOMAIN signed :
                                   key(prefix, f) = k]]},
             err |-> Nil]

\* a call of GitLabFinalizeFields
CallGitLabFinalizeFields ==
  /\ call.fn = "none"
  /\ \E fh \in FinalizeHandlers, prefix \in Prefixes, secret \in Secrets :
       call' = [fn |-> "GitLabFinalizeFields",
                in |-> [fh |-> fh, prefix |-> prefix, secret |-> secret],
                out |-> GitLabFinalizeFields(fh, prefix, secret)]
  /\ UNCHANGED uploadVars

\* ---- the calls of the side-effect-free functions ----
\* no upload is running
PureInit == S3Init

PureNext ==
  \/ CallGetOpts
  \/ CallObjectStoragePrepare
  \/ CallLfsPrepare
  \/ CallLfsVerify
  \/ CallGitLabFinalizeFields

PureSpec == PureInit /\ [][PureNext]_vars

\* C26: the verifier that the LFS preparer returns accepts a FileHandler
\* exactly when its Size is the declared LfsSize and its SHA-256 is the declared
\* LfsOid, and returns an error otherwise; Prepare always succeeds and returns
\* the verifier of the declared oid and size together with the options.
C26_LfsVerifier ==
  /\ (call.fn = "lfs.Verify") =>
       ((call.out.err = Nil) <=>
          /\ call.in.fh.Size = call.in.size
          /\ call.in.fh.hashes.sha256 = call.in.oid)
  /\ (call.fn = "lfs.Prepare") =>
       /\ call.out.err = Nil
       /\ call.out.verifier =
            {[oid |-> call.in.a.LfsOid, size |-> call.in.a.LfsSize]}
       /\ call.out.opts.TempFilePrefix = call.in.a.LfsOid
       /\ call.out.opts.LocalTempPath = call.in.a.TempPath
       /\ call.out.opts.PresignedPut = call.in.a.RemoteObject.StoreURL

\* a FileHandler of the declared size whose hash is not the declared oid is
\* rejected
C26_Witness ==
  /\ call.fn = "lfs.Verify"
  /\ call.in.size = MaxLen
  /\ call.in.fh.Size = MaxLen
  /\ call.in.oid = <<"sha256", MaxLen>>
  /\ call.in.fh.hashes.sha256 = <<"sha256", 0>>
  /\ call.out.err = "LFSObject: expected sha256"

\* C27: when the token is signed, the map of GitLabFinalizeFields holds name,
\* path, remote_url, remote_id, size (in decimal) and every hash under
\* prefix.field, or under field when the prefix is empty, holds the token under
\* the key gitlab-workhorse-upload with the same rule and nothing else, and the
\* upload claim of the token holds the same values under the plain field names.
C27_FinalizeFields ==
  (call.fn = "GitLabFinalizeFields" /\ call.out.err = Nil) =>
    LET fh == call.in.fh
        prefix == call.in.prefix
        k(f) == IF prefix = "" THEN f ELSE prefix \o "." \o f
        want == [name |-> fh.Name, path |-> fh.LocalPath,
                 remote_url |-> fh.RemoteURL, remote_id |-> fh.RemoteID,
                 size |-> FormatInt(fh.Size), md5 |-> fh.hashes.md5,
                 sha256 |-> fh.hashes.sha256]
    IN /\ Cardinality(call.out.data) = 1
       /\ \A data \in call.out.data :
            /\ \A f \in DOMAIN want :
                 /\ k(f) \in DOMAIN data
                 /\ data[k(f)] = want[f]
            /\ k("gitlab-workhorse-upload") \in DOMAIN data
            /\ Cardinality(DOMAIN data) = Cardinality(DOMAIN want) + 1
            /\ LET token == data[k("gitlab-workhorse-upload")]
               IN /\ token.header = "HS256"
                  /\ DOMAIN token.claims.upload = DOMAIN want
                  /\ \A f \in DOMAIN want : token.claims.upload[f] = want[f]

\* the fields of a two-digit size without a prefix
C27_Witness ==
  /\ call.fn = "GitLabFinalizeFields"
  /\ call.in.prefix = ""
  /\ call.in.fh.Size = 10 * MaxLen + MaxLen
  /\ call.out.err = Nil
  /\ \E data \in call.out.data :
       /\ "size" \in DOMAIN data
       /\ data["size"] = FormatInt(10 * MaxLen + MaxLen)
       /\ "gitlab-workhorse-upload" \in DOMAIN data

\* C28: the options of GetOpts have exactly the header Content-Type:
\* application/octet-stream when the response does not declare custom headers,
\* and the headers of the response when it does.
C28_PutHeaders ==
  (call.fn = "GetOpts") =>
    LET ro == call.in.a.RemoteObject
    IN /\ ~ro.CustomPutHeaders =>
            call.out.PutHeaders =
              {<<"Content-Type", "application/octet-stream">>}
       /\ ro.CustomPutHeaders => call.out.PutHeaders = ro.PutHeaders

\* a response with headers that it does not declare as custom
C28_Witness ==
  /\ call.fn = "GetOpts"
  /\ ~call.in.a.RemoteObject.CustomPutHeaders
  /\ <<"x-amz-acl", "private">> \in call.in.a.RemoteObject.PutHeaders
  /\ call.out.PutHeaders = {<<"Content-Type", "application/octet-stream">>}

\* C29: Prepare of a preparer built for a name that the configuration does
\* not have succeeds with a disabled object-storage configuration and no
\* verifier; for a configured name the ObjectStorageConfig of the options is the
\* configured entry, and there is no verifier.
C29_ObjectStoragePreparer ==
  (call.fn = "ObjectStoragePreparer.Prepare") =>
    LET m == call.in.c.ObjectStorages
    IN /\ call.out.err = Nil
       /\ call.out.verifier = {}
       /\ (call.in.name \notin DOMAIN m) =>
            ~call.out.opts.ObjectStorageConfig.Enabled
       /\ (call.in.name \in DOMAIN m) =>
            call.out.opts.ObjectStorageConfig = m[call.in.name]

\* a name that is not configured, with a configuration that has other entries
\* and a response that carries storage parameters of its own
C29_Witness ==
  /\ call.fn = "ObjectStoragePreparer.Prepare"
  /\ call.in.name = "unknown"
  /\ DOMAIN call.in.c.ObjectStorages = StorageNames
  /\ call.in.a.RemoteObject.UseWorkhorseClient
  /\ call.in.a.RemoteObject.ObjectStorage # {}
  /\ call.out.err = Nil
  /\ ~call.out.opts.ObjectStorageConfig.Enabled
  /\ call.out.verifier = {}

\* ---- the bodies of the part PUTs ----
\* the bodies of the PUTs of parts 1..n, one after the other
RECURSIVE PutBodies(_)
PutBodies(n) == IF n = 0 THEN <<>> ELSE PutBodies(n - 1) \o partBodies[n]

\* the multipart upload ended without an error, after its
\* CompleteMultipartUpload request
MultipartSucceeded ==
  /\ IsMultipart
  /\ UploadExited
  /\ uploadError = Nil
  /\ completeSent = 1

\* C30: after a successful multipart upload the bodies of the part PUTs, taken
\* in the order of the part numbers, are the bytes that were written to the
\* uploader, each once and in the order of the stream; the parts of the
\* completion are the parts that were sent, and no other part URL was used.
C30_PartBodiesAreTheStream ==
  MultipartSucceeded =>
    /\ PutBodies(Len(cmu)) = [i \in 1..consumed |-> i]
    /\ (consumed <= MaxLen \/ hashed <= MaxLen) => consumed = hashed
    /\ \A i \in 1..MaxParts :
         IF i <= Len(cmu) THEN /\ partPuts[i] = 1
                               /\ cmu[i].PartNumber = i
                               /\ partBodies[i] # <<>>
                          ELSE /\ partPuts[i] = 0
                               /\ partBodies[i] = <<>>

\* a stream that fills the first part and goes on in the last one
C30_Witness ==
  /\ MultipartSucceeded
  /\ opts.PartSize = MaxPartSize
  /\ Len(cmu) = MaxParts
  /\ Len(partBodies[1]) = MaxPartSize
  /\ partBodies[MaxParts] = <<(MaxParts - 1) * MaxPartSize + 1>>
  /\ consumed = (MaxParts - 1) * MaxPartSize + 1

\* ---- the parts of a multipart upload ----
\* the part loop and the drain ended without an error: complete is due, sent
\* or answered
PartLoopDone ==
  /\ IsMultipart
  /\ (upPC \in {"complete", "complete_wait"} \/ completeSent = 1)

\* the number of part URLs that got a PUT
PartPutsSent == Cardinality({ i \in 1..MaxParts : partPuts[i] > 0 })

\* C31: a part PUT carries between 1 and PartSize bytes, and PartSize bytes
\* when a later part was sent; once the part loop has ended on a stream of n
\* bytes that the part URLs can take, ceil(n / PartSize) part PUTs were sent,
\* each once, and none for an empty stream.
C31_PartSizes ==
  IsMultipart =>
    /\ \A i \in 1..MaxParts :
         (partPuts[i] > 0) =>
           /\ Len(partBodies[i]) >= 1
           /\ Len(partBodies[i]) <= opts.PartSize
           /\ \A j \in 1..MaxParts :
                (j > i /\ partPuts[j] > 0) => Len(partBodies[i]) = opts.PartSize
    /\ PartLoopDone =>
         /\ consumed <= opts.PartSize * opts.NumParts
         /\ PartPutsSent = (consumed + opts.PartSize - 1) \div opts.PartSize
         /\ \A i \in 1..MaxParts : partPuts[i] <= 1
         /\ (consumed = 0) => (PartPutsSent = 0)

\* a stream of one byte more than a part: a full part and a last part of one
\* byte
C31_Witness ==
  /\ opts.PartSize = MaxPartSize
  /\ upPC = "complete"
  /\ consumed = MaxPartSize + 1
  /\ Len(partBodies[1]) = MaxPartSize
  /\ Len(partBodies[2]) = 1
  /\ PartPutsSent = 2

\* C32: the parts of a completion request that was sent are the parts that
\* were uploaded: as many as part URLs got a PUT, numbered 1..k in this order,
\* part i with the ETag of the answer to the one PUT sent to the part URL of
\* index i, and no PUT went to a later part URL.
C32_CompletionListsUploadedParts ==
  (IsMultipart /\ completeSent = 1) =>
    /\ Len(cmu) = Cardinality({ i \in 1..MaxParts : partPuts[i] > 0 })
    /\ \A i \in 1..MaxParts :
         IF i <= Len(cmu)
           THEN /\ cmu[i].PartNumber = i
                /\ partPuts[i] = 1
                /\ partETags[i] # NoAnswer
                /\ cmu[i].ETag = partETags[i]
           ELSE /\ partPuts[i] = 0
                /\ partETags[i] = NoAnswer

\* two parts whose PUTs were answered with different ETags
C32_Witness ==
  /\ completeSent = 1
  /\ Len(cmu) = 2
  /\ partETags[1] = WrongETag
  /\ partETags[2] = md5Sum
  /\ cmu[1] = [PartNumber |-> 1, ETag |-> WrongETag]
  /\ cmu[2] = [PartNumber |-> 2, ETag |-> md5Sum]

\* ---- the fan-out of the copy ----
\* C33: the step in which a chunk was handed to the sinks and the copy ended
\* is the failure of a sink: the call has that error and no FileHandler; the
\* chunk is not counted and did not reach the local sink, and when it was the
\* remote sink that failed it did not reach the uploader either.  Outside the
\* copy no sink is written, so no later chunk reaches any sink.
C33_CopyStopsAtFirstError ==
  [][ /\ (sfrPC = "copy" /\ sfrPC' # "copy" /\ hashed' # hashed) =>
           /\ ~result'.fh
           /\ fhSize' = fhSize
           /\ localBytes' = localBytes
           /\ IF RemoteCreated /\ pipeErr # "open"
                THEN /\ result'.err = pipeErr
                     /\ consumed' = consumed
                ELSE /\ opts.LocalTempPath
                     /\ result'.err = "LocalWriteError"
                     /\ (upPC # "idle") => (consumed' # consumed)
      /\ (sfrPC # "copy") =>
           /\ hashed' = hashed
           /\ localBytes' = localBytes
           /\ consumed' = consumed
           /\ fhSize' = fhSize
           /\ (sfrPC \in {"defer_wait", "returned"}) => (result' = result)
    ]_vars

\* the remote sink failed with the error of the upload for the second chunk:
\* the hash sink has it, the uploader and the local file do not
C33_Witness ==
  /\ opts.LocalTempPath
  /\ upPC # "idle"
  /\ result = Failure("PartError")
  /\ pipeErr = "PartError"
  /\ hashed = 2
  /\ consumed = 1
  /\ localBytes = 1
  /\ fhSize = 1
  /\ sfrPC = "returned"

\* ---- the three uploaders side by side ----
\* A call with a presigned destination goes through SaveFileFromReader to the
\* single-PUT or the multipart uploader; a call without one holds an S3Object.
\* The local sink is left out.
UploadersInit ==
  /\ Init
  /\ ~IsLocal
  /\ ~IsRemote => S3Init

UploadersNext ==
  \/ IsRemote /\ SaveFileFromReader
  \/ IsRemote /\ CopyReadError
  \/ IsRemote /\ CopyEOF
  \/ IsRemote /\ CopyWriteError
  \/ IsRemote /\ RemoteCloseReturns
  \/ IsRemote /\ DeferredCloseReturns
  \/ IsRemote /\ createTempFile
  \/ IsRemote /\ readAndUploadOnePart
  \/ IsRemote /\ readAndUploadOnePartEOF
  \/ IsRemote /\ readAndUploadOnePartDiskError
  \/ IsRemote /\ uploadPart
  \/ IsRemote /\ uploadPartReturns
  \/ IsRemote /\ drain
  \/ IsRemote /\ drainEOF
  \/ IsRemote /\ complete
  \/ IsRemote /\ completeReturns
  \/ IsRemote /\ newObject
  \/ IsRemote /\ newObjectBody
  \/ IsRemote /\ newObjectBodyEOF
  \/ IsRemote /\ newObjectReturns
  \/ IsRemote /\ deferCloseWithError
  \/ IsRemote /\ deferCancelFn
  \/ IsRemote /\ cleanup
  \/ IsRemote /\ cleanupDelete
  \/ IsRemote /\ newObjectCleanup
  \/ IsRemote /\ newObjectDelete
  \/ IsRemote /\ CancelRequest
  \/ IsRemote /\ DeadlineExpire
  \/ ~IsRemote /\ NewS3Object
  \/ ~IsRemote /\ s3UploadRead
  \/ ~IsRemote /\ S3WriteError
  \/ ~IsRemote /\ S3Close
  \/ ~IsRemote /\ S3CloseReturns
  \/ ~IsRemote /\ s3NewSession
  \/ ~IsRemote /\ s3UploadReturns
  \/ ~IsRemote /\ deferCloseWithError
  \/ ~IsRemote /\ deferCancelFn
  \/ ~IsRemote /\ s3cleanup
  \/ ~IsRemote /\ s3cleanupDelete
  \/ ~IsRemote /\ CancelRequest
  \/ ~IsRemote /\ DeadlineExpire

\* a goroutine that has returned runs its deferred functions
UploadersFairness ==
  /\ WF_vars(deferCloseWithError)
  /\ WF_vars(deferCancelFn)

UploadersSpec == UploadersInit /\ [][UploadersNext]_vars /\ UploadersFairness

\* C34: an upload goroutine of any of the three uploaders ends in these
\* steps, in this order: uploadError has its final value when the goroutine
\* returns, the reader end of the pipe is then closed with it (io.ErrClosedPipe
\* for nil), which is what the next Write returns, and the upload context is
\* cancelled after that; the pipe is closed nowhere else, and a goroutine that
\* has returned does reach the cancellation.
C34_ExitSteps ==
  /\ [][ /\ (upPC \in {"exit_close", "exit_cancel", "done"}) =>
              uploadError' = uploadError
         /\ (upPC' = "exit_cancel" /\ upPC # "exit_cancel") =>
              /\ upPC = "exit_close"
              /\ pipeErr = "open"
              /\ pipeErr' = IF uploadError = Nil THEN ErrClosedPipe
                                                 ELSE uploadError
              /\ uploadCtxErr' = uploadCtxErr
         /\ (pipeErr' # pipeErr) => (upPC = "exit_close" /\ upPC' = "exit_cancel")
         /\ (upPC' = "done" /\ upPC # "done") =>
              /\ upPC = "exit_cancel"
              /\ pipeErr # "open"
              /\ pipeErr' = pipeErr
              /\ uploadCtxErr' # Nil
         /\ (upPC = "done") => (upPC' = "done")
       ]_vars
  /\ [](upPC = "done" => (uploadCtxErr # Nil /\ pipeErr # "open"))
  /\ (upPC = "exit_close") ~> (upPC = "done" /\ uploadCtxErr # Nil)

\* a multipart upload whose part failed: the pipe was closed with the error
\* of the part before the context was cancelled by the goroutine
C34_Witness ==
  /\ opts.PartSize > 0
  /\ upPC = "done"
  /\ uploadError = "PartError"
  /\ pipeErr = "PartError"
  /\ uploadCtxErr = Canceled
  /\ ~ctxDone

\* C35: when the cleanup of a multipart or native S3 upload has tested
\* uploadError, found nil and chosen to wait for the context of the request,
\* uploadError is nil for good: the test was not made on a nil that the upload
\* goroutine replaces by an error afterwards.
C35_CleanupTestsFinalError ==
  ((IsMultipart \/ ~IsRemote) /\ clPC = "wait_ctx") => (uploadError = Nil)

\* the part PUTs that were sent and have not been answered: the one uploadPart
\* is waiting for, and those whose Close returned before the answer came
PartPutsInFlight ==
  {i \in 1..MaxParts : /\ partPuts[i] > 0
                       /\ partETags[i] = NoAnswer
                       /\ (i <= Len(cmu) \/ (i = Len(cmu) + 1 /\ upPC = "put_wait"))}

\* C36: at most one part PUT of a multipart upload is in flight at any time;
\* bytes of the next part are read from the pipe only when the PUT of every
\* earlier part has been answered with success; and a part PUT is sent only
\* when every earlier part was sent once, answered and accepted.
C36_OnePartAtATime ==
  IsMultipart =>
    /\ Cardinality(PartPutsInFlight) <= 1
    /\ (partBuf # <<>>) =>
         \A i \in 1..Len(cmu) : partETags[i] # NoAnswer
    /\ \A j \in 1..MaxParts : (partPuts[j] > 0) =>
         \A i \in 1..(j - 1) :
           /\ partPuts[i] = 1
           /\ partETags[i] # NoAnswer
           /\ (~opts.SkipETagVerify => EqualFold(md5Sum, partETags[i]))

\* C37: a multipart upload never has more than one part-buffer temporary
\* file; a file exists only while readAndUploadOnePart is running (reading the
\* part, or sending it), so every way out of it has removed the file; and no
\* file is left when the upload goroutine has terminated.
C37_TempFileRemoved ==
  /\ tempFiles <= 1
  /\ (tempFiles = 1) => (IsMultipart /\ upPC \in {"buffer", "put", "put_wait"})
  /\ (upPC \in {"drain", "complete", "complete_wait", "exit_close",
                "exit_cancel", "done"}) => (tempFiles = 0)

\* the PUT of the second part failed after the first part went through, the
\* goroutine has terminated and both temporary files are gone
C37_Witness ==
  /\ IsMultipart
  /\ upPC = "done"
  /\ uploadError = "PartError"
  /\ Len(cmu) = 1
  /\ partPuts[2] = 1
  /\ tempFiles = 0

\* ---- the sinks after the return of SaveFileFromReader ----

\* The upload goroutine is scheduled, a read on a pipe whose writer end is
\* closed returns, and a request under the deadline of the upload context
\* returns.
ClosingFairness ==
  /\ WF_vars(createTempFile)
  /\ WF_vars(readAndUploadOnePartEOF)
  /\ WF_vars(uploadPart)
  /\ WF_vars(uploadPartReturns)
  /\ WF_vars(drainEOF)
  /\ WF_vars(complete)
  /\ WF_vars(completeReturns)
  /\ WF_vars(newObject)
  /\ WF_vars(newObjectBodyEOF)
  /\ WF_vars(newObjectReturns)
  /\ WF_vars(deferCloseWithError)
  /\ WF_vars(deferCancelFn)

\* SaveFileFromReader, the upload goroutines and the context of the request;
\* the cleanup goroutines write nothing that these read
ClosingNext == Tee \/ Upload \/ Environment

ClosingSpec == Init /\ [][ClosingNext]_vars /\ ClosingFairness

\* SaveFileFromReader is past its return statement: its deferred function is
\* running or has run
Returning == sfrPC \in {"defer_wait", "returned"}

\* C38: once SaveFileFromReader is on a return path with a remote sink
\* created, the writer end of that sink's pipe is closed; once it has returned
\* the descriptor of a created local file is closed too; and from then on the
\* upload goroutine of the remote sink terminates.
C38_SinksClosedOnReturn ==
  /\ []((Returning /\ RemoteCreated) => wclosed)
  /\ []((sfrPC = "returned" /\ localFile # "none") => fileClosed)
  /\ (Returning /\ RemoteCreated) ~> (upPC = "done")

\* SaveFileFromReader has returned the error of the local file that could not
\* be created, after the remote sink was; the pipe is closed and the upload
\* goroutine has terminated
C38_Witness ==
  /\ sfrPC = "returned"
  /\ result = Failure("LocalFileError")
  /\ RemoteCreated
  /\ wclosed
  /\ upPC = "done"

\* the upload goroutines that were started and have not returned
UploadGoroutinesRunning == IF upPC \in {"idle", "done"} THEN 0 ELSE 1

\* C39: the gauge of open uploads is never negative and equals the number of
\* upload goroutines that are running, whatever the kind of the uploader: it
\* is 1 from the construction of the uploader to the exit of its goroutine,
\* part PUTs included, and 0 before and after.
C39_UploadsOpenGauge ==
  /\ uploadsOpen >= 0
  /\ uploadsOpen = UploadGoroutinesRunning
  /\ (upPC = "put_wait") => (uploadsOpen = 1)

\* a multipart upload has sent the PUTs of two parts and its goroutine has
\* exited: the gauge is back to 0
C39_Witness ==
  /\ IsMultipart
  /\ partPuts[1] > 0
  /\ partPuts[2] > 0
  /\ upPC = "done"
  /\ uploadsOpen = 0

\* the upload goroutine has exited and the cleanup goroutine is past its test
\* of uploadError (the single PUT has no such test)
UploadOver == upPC = "done" /\ clPC \notin {"idle", "wait_upload"}

\* C40: the counter of failed requests never counts an upload twice, and when
\* an upload is over it stands at 1 if the upload failed and at 0 if it
\* succeeded, for a multipart upload, a single PUT and a native S3 upload.
C40_RequestFailedOnce ==
  /\ requestFailed <= 1
  /\ UploadOver => (requestFailed = IF uploadError # Nil THEN 1 ELSE 0)

====
